---- MODULE Spec2Model ----
(***************************************************************************)
(* Model of apps/api/src/controllers/v2/search.ts: the iterative           *)
(* retrieval / fusion / scrape / evaluate loop of searchController and the  *)
(* helpers it calls (expandQueriesPlanner, rrfMerge, textSim,               *)
(* scrapeSearchResult, startScrapeJob, evaluateAnswerWithLLM).              *)
(*                                                                          *)
(* Representation.  A string is a sequence of words (the string split on    *)
(* single blanks); the empty word "" stands for surplus white space, so     *)
(* <<"", "best", "cars">> is " best cars".  A number with a fractional part *)
(* is an integer in a fixed unit: confidences are hundredths, fusion scores *)
(* are multiples of 1/ScoreScale.  The collaborators that are not part of   *)
(* the file (text completion, search provider, fetch queue, credit          *)
(* calculation, blocklist) are the environment: every outcome they can      *)
(* deliver is a nondeterministic choice from a small set.                   *)
(***************************************************************************)
EXTENDS Integers, Sequences, FiniteSets, TLC

(***************************************************************************)
(* Bounds of the model                                                      *)
(***************************************************************************)
\* largest number of missing facts a verdict of the model carries beyond
\* the five the controller keeps
MaxExtraFacts == 1
\* rrfMerge on its own: the number of lists and their length in the
\* exhaustive inputs, and the largest small k tried beside the default
MaxFusionLists == 2
MaxFusionLen == 2
MaxK == 3
\* expandQueriesPlanner on its own: the number of strings a reply lists
MaxEntries == 3
\* extractTopSpansFromMarkdown on its own: the number of paragraphs of a page
MaxParagraphs == 3

(***************************************************************************)
(* Program constants                                                        *)
(***************************************************************************)
MAX_ITERATIONS == 2
\* evalResult.confidence >= 0.6, in hundredths
CONVERGENCE_THRESHOLD == 60
\* expandQueriesPlanner(req.body.query, gapHint, 5)
MAX_VARIANTS == 5
\* (evalResult.missing_facts || []).slice(0, 5)
GAP_FACTS == 5
\* rrfMerge(lists, expandedQs, k = 60, beta = 0.1): beta = BetaNum / BetaDen
RRF_K == 60
BetaNum == 1
BetaDen == 10
\* metadata.statusCode of the placeholder document of a failed scrape
ERROR_STATUS == 500

(***************************************************************************)
(* Generic helpers                                                          *)
(***************************************************************************)
Min(a, b) == IF a < b THEN a ELSE b

RECURSIVE SumSeq(_)
SumSeq(s) == IF s = <<>> THEN 0 ELSE Head(s) + SumSeq(Tail(s))

RECURSIVE GCD(_, _)
GCD(a, b) == IF b = 0 THEN a ELSE GCD(b, a % b)

LCM(a, b) == (a \div GCD(a, b)) * b

RECURSIVE LCMSet(_)
LCMSet(S) ==
    IF S = {} THEN 1
    ELSE LET e == CHOOSE e \in S : TRUE IN LCM(e, LCMSet(S \ {e}))

\* Array.prototype.slice(0, n)
Slice(s, n) == SubSeq(s, 1, Min(n, Len(s)))

(***************************************************************************)
(* Strings as word sequences                                                *)
(***************************************************************************)
\* String.prototype.toLowerCase on one word
Lower(w) ==
    CASE w = "Best" -> "best"
      [] w = "Cars" -> "cars"
      [] OTHER -> w

\* s.replace(/\s+/g, " ").trim(): surplus white space disappears
norm(s) == SelectSeq(s, LAMBDA w : w # "")

LowerStr(s) == [i \in 1..Len(s) |-> Lower(s[i])]

\* toTokens of textSim: lower-cased words of at least 3 characters, as a set
toTokens(s) == {Lower(s[i]) : i \in {j \in 1..Len(s) : Len(s[j]) >= 3}}

\* textSim(a, b) as the fraction <<inter, uni>>; <<0, 1>> is 0
textSim(a, b) ==
    LET A == toTokens(a)
        B == toTokens(b)
        inter == Cardinality(A \cap B)
        uni == Cardinality(A) + Cardinality(B) - inter
    IN  IF A = {} \/ B = {} THEN <<0, 1>>
        ELSE IF uni = 0 THEN <<0, 1>> ELSE <<inter, uni>>

(***************************************************************************)
(* Search results                                                           *)
(*                                                                          *)
(* An item is [url, position, title, description, snippet, category, doc].  *)
(* url "" is an absent url, position 0 an absent position, category "" an   *)
(* absent category; doc is the scraped Document merged into the item        *)
(* (NoDoc before any merge).                                                *)
(***************************************************************************)
\* a Document as far as the controller reads it: markdown ("" is none),
\* metadata.statusCode (0 is none), metadata.error
NoDoc == [kind |-> "none", markdown |-> <<>>, statusCode |-> 0, error |-> ""]

Item(u, p, t, d) ==
    [url |-> u, position |-> p, title |-> t, description |-> d,
     snippet |-> <<>>, category |-> "", doc |-> NoDoc]

\* a news result: its text is its snippet (line 665), it has no description
NewsItem(u, p, t, sn) ==
    [url |-> u, position |-> p, title |-> t, description |-> <<>>,
     snippet |-> sn, category |-> "", doc |-> NoDoc]

\* the snippet compared with the queries: the description unless it is
\* empty after trim, else the title
SnippetText(item) ==
    IF Len(norm(item.description)) > 0 THEN item.description ELSE item.title

(***************************************************************************)
(* rrfMerge                                                                 *)
(***************************************************************************)
\* the <<item, rank, variantIdx>> visits of lists.forEach(list.forEach),
\* in visiting order; rank = item.position ?? idx + 1
RECURSIVE Occurrences(_, _)
Occurrences(lists, variantIdx) ==
    IF variantIdx > Len(lists) THEN <<>>
    ELSE [idx \in 1..Len(lists[variantIdx]) |->
            LET item == lists[variantIdx][idx] IN
            [item |-> item,
             rank |-> IF item.position = 0 THEN idx ELSE item.position,
             variantIdx |-> variantIdx]]
         \o Occurrences(lists, variantIdx + 1)

\* every score is a multiple of 1/ScoreScale(...): the scale is divisible by
\* each k + rank met and by beta's denominator times each Jaccard denominator
ScoreScale(occ, expandedQs, k) ==
    LCMSet({k + occ[i].rank : i \in 1..Len(occ)}
           \cup {BetaDen * textSim(SnippetText(occ[i].item), expandedQs[j])[2] :
                    i \in 1..Len(occ), j \in 1..Len(expandedQs)})

\* no url is ever found again: every visit makes a new entry
IndexOfUrl_Never(accs, url) == 0

\* byUrl.get(url): the place of the url's entry in byUrl, 0 when it has none
IndexOfUrl(accs, url) ==
    IF \E i \in 1..Len(accs) : accs[i].url = url
    THEN CHOOSE i \in 1..Len(accs) : accs[i].url = url
    ELSE 0

\* a url met again keeps the contribution of its first visit only
Accumulate_FirstOnly(byUrl, o, add) ==
    IF o.item.url = "" \/ IndexOfUrl(byUrl, o.item.url) # 0 THEN byUrl
    ELSE Append(byUrl, [url |-> o.item.url, base |-> add, bestItem |-> o.item,
                        bestRank |-> o.rank, bestVariantIdx |-> o.variantIdx])

\* of the visits of equal rank the last one is kept
Accumulate_LastWinsTies(byUrl, o, add) ==
    LET i == IndexOfUrl(byUrl, o.item.url) IN
    IF o.item.url = "" THEN byUrl
    ELSE IF i = 0 THEN
        Append(byUrl, [url |-> o.item.url, base |-> add, bestItem |-> o.item,
                       bestRank |-> o.rank, bestVariantIdx |-> o.variantIdx])
    ELSE LET prev == byUrl[i]
             better == o.rank <= prev.bestRank
         IN [byUrl EXCEPT ![i] =
                [url |-> prev.url,
                 base |-> prev.base + add,
                 bestItem |-> IF better THEN o.item ELSE prev.bestItem,
                 bestRank |-> IF better THEN o.rank ELSE prev.bestRank,
                 bestVariantIdx |->
                    IF better THEN o.variantIdx ELSE prev.bestVariantIdx]]

\* one visit of the inner forEach: byUrl after the visit.  byUrl is the Map
\* in insertion order.
Accumulate(byUrl, o, add) ==
    LET i == IndexOfUrl(byUrl, o.item.url) IN
    IF o.item.url = "" THEN byUrl
    ELSE IF i = 0 THEN
        Append(byUrl, [url |-> o.item.url, base |-> add, bestItem |-> o.item,
                       bestRank |-> o.rank, bestVariantIdx |-> o.variantIdx])
    ELSE LET prev == byUrl[i]
             better == \/ o.rank < prev.bestRank
                       \/ (o.rank = prev.bestRank
                           /\ o.variantIdx < prev.bestVariantIdx)
         IN [byUrl EXCEPT ![i] =
                [url |-> prev.url,
                 base |-> prev.base + add,
                 bestItem |-> IF better THEN o.item ELSE prev.bestItem,
                 bestRank |-> IF better THEN o.rank ELSE prev.bestRank,
                 bestVariantIdx |->
                    IF better THEN o.variantIdx ELSE prev.bestVariantIdx]]

RECURSIVE AccumulateAll(_, _, _, _)
AccumulateAll(byUrl, occ, k, scale) ==
    IF occ = <<>> THEN byUrl
    ELSE AccumulateAll(
            Accumulate(byUrl, Head(occ), scale \div (k + Head(occ).rank)),
            Tail(occ), k, scale)

\* simSum of one entry, times beta, in units of 1/scale
SimBoost(acc, expandedQs, scale) ==
    SumSeq([j \in 1..Len(expandedQs) |->
        LET f == textSim(SnippetText(acc.bestItem), expandedQs[j])
        IN  (scale \div (BetaDen * f[2])) * BetaNum * f[1]])

\* an unstable sort: an entry goes in front of the entries of equal score
RECURSIVE InsertByScore_Unstable(_, _)
InsertByScore_Unstable(sorted, e) ==
    IF sorted = <<>> THEN <<e>>
    ELSE IF Head(sorted).score > e.score
         THEN <<Head(sorted)>> \o InsertByScore_Unstable(Tail(sorted), e)
         ELSE <<e>> \o sorted

\* Array.prototype.sort((a, b) => b.score - a.score): descending and
\* stable, an entry goes behind the entries whose score is not smaller
RECURSIVE InsertByScore(_, _)
InsertByScore(sorted, e) ==
    IF sorted = <<>> THEN <<e>>
    ELSE IF Head(sorted).score >= e.score
         THEN <<Head(sorted)>> \o InsertByScore(Tail(sorted), e)
         ELSE <<e>> \o sorted

RECURSIVE SortByScore(_, _)
SortByScore(sorted, rest) ==
    IF rest = <<>> THEN sorted
    ELSE SortByScore(InsertByScore(sorted, Head(rest)), Tail(rest))

\* the entries of byUrl with their score, ranked
RankedEntries(lists, expandedQs, k) ==
    LET occ == Occurrences(lists, 1)
        scale == ScoreScale(occ, expandedQs, k)
        byUrl == AccumulateAll(<<>>, occ, k, scale)
        scored == [i \in 1..Len(byUrl) |->
                    [url |-> byUrl[i].url,
                     bestItem |-> byUrl[i].bestItem,
                     score |-> byUrl[i].base
                               + SimBoost(byUrl[i], expandedQs, scale)]]
    IN  SortByScore(<<>>, scored)

\* the ranked items keep the position they came with
rrfMerge_KeepPosition(lists, expandedQs, k) ==
    LET ranked == RankedEntries(lists, expandedQs, k) IN
    [i \in 1..Len(ranked) |-> ranked[i].bestItem]

\* lines 207-273
rrfMerge(lists, expandedQs, k) ==
    LET ranked == RankedEntries(lists, expandedQs, k) IN
    [i \in 1..Len(ranked) |-> [ranked[i].bestItem EXCEPT !.position = i]]

(***************************************************************************)
(* expandQueriesPlanner                                                     *)
(*                                                                          *)
(* completion is what generateText delivers: [kind |-> "throw"] when the    *)
(* call fails, else [kind |-> "text", text |-> t].  A text t is             *)
(* [fence, form, entries]: fence "json" or "bare" when t is wrapped in      *)
(* ```json ... ``` or ``` ... ```, "none" when it is not; form "array" when *)
(* the body is a JSON list of the strings entries, "number" when it is a    *)
(* JSON number, "lines" when it is one bulleted line per entry.             *)
(***************************************************************************)
\* JSON.parse(text) followed by the Array.isArray test (lines 68-69, 78-79):
\* [ok, value]; ok FALSE stands for the throw
JsonParseArray(text) ==
    IF text.fence = "none" /\ text.form = "array"
    THEN [ok |-> TRUE, value |-> text.entries]
    ELSE [ok |-> FALSE, value |-> <<>>]

\* lines 71-76: the fences are taken off
StripFences(text) == [text EXCEPT !.fence = "none"]

\* String.prototype.trim on a word sequence
RECURSIVE Trim(_)
Trim(s) ==
    IF s = <<>> THEN <<>>
    ELSE IF Head(s) = "" THEN Trim(Tail(s))
    ELSE IF s[Len(s)] = "" THEN Trim(SubSeq(s, 1, Len(s) - 1))
    ELSE s

\* s.replace(/^[-*\d.\s]+/, ""): the leading words made of bullets, digits,
\* dots and white space go
RECURSIVE StripBullet(_)
StripBullet(line) ==
    IF line = <<>> THEN <<>>
    ELSE IF Head(line) \in {"-", "*", "1.", "42", ""}
         THEN StripBullet(Tail(line))
         ELSE line

\* the pieces of cleaned.split(/\n|,/): an empty text gives one empty piece
Pieces(cleaned) ==
    IF cleaned.form = "number" THEN <<<<"42">>>>
    ELSE IF cleaned.entries = <<>> THEN <<<<>>>>
    ELSE IF cleaned.form = "lines"
    THEN [i \in 1..Len(cleaned.entries) |-> <<"-">> \o cleaned.entries[i]]
    ELSE cleaned.entries

\* lines 81-84
SplitLines(cleaned) ==
    SelectSeq([i \in 1..Len(Pieces(cleaned)) |->
                    Trim(StripBullet(Pieces(cleaned)[i]))],
              LAMBDA piece : piece # <<>>)

\* lines 66-86: the variants and the stages that were tried
ParseChain(text) ==
    IF JsonParseArray(text).ok
    THEN [variants |-> JsonParseArray(text).value, stages |-> <<"raw">>]
    ELSE IF JsonParseArray(StripFences(text)).ok
    THEN [variants |-> JsonParseArray(StripFences(text)).value,
          stages |-> <<"raw", "cleaned">>]
    ELSE [variants |-> SplitLines(StripFences(text)),
          stages |-> <<"raw", "cleaned", "split">>]

\* the for loop over variants: out after the loop, seen being the lower-cased
\* entries already pushed
RECURSIVE DedupVariants(_, _, _, _)
DedupVariants(variants, seen, out, maxVariants) ==
    IF variants = <<>> THEN out
    ELSE LET q == norm(Head(variants)) IN
         IF q = <<>> \/ LowerStr(q) \in seen
         THEN DedupVariants(Tail(variants), seen, out, maxVariants)
         ELSE IF Len(out) + 1 >= maxVariants
              THEN Append(out, q)
              ELSE DedupVariants(Tail(variants), seen \cup {LowerStr(q)},
                                 Append(out, q), maxVariants)

\* the try block (lines 52-102): it throws when generateText does
PlannerTry(baseQuery, gapHint, maxVariants, completion) ==
    IF completion.kind = "throw"
    THEN [raised |-> TRUE, value |-> <<>>, stages |-> <<>>]
    ELSE LET chain == ParseChain(completion.text)
             out == DedupVariants(chain.variants, {}, <<>>, maxVariants)
             original == norm(baseQuery)
         IN  [raised |-> FALSE,
              value |-> <<original>>
                        \o SelectSeq(out, LAMBDA v :
                                LowerStr(v) # LowerStr(original)),
              stages |-> chain.stages]

\* what is thrown inside the try block leaves the function
PlannerCatch_Rethrow(tried, baseQuery) == tried

\* the catch block (lines 103-105)
PlannerCatch(tried, baseQuery) ==
    IF tried.raised
    THEN [raised |-> FALSE, value |-> <<baseQuery>>, stages |-> tried.stages]
    ELSE tried

\* the call as its caller sees it: whether it raised, what it returned, and
\* the parse stages it went through
PlannerOutcome(baseQuery, gapHint, maxVariants, completion) ==
    PlannerCatch(PlannerTry(baseQuery, gapHint, maxVariants, completion),
                 baseQuery)

expandQueriesPlanner(baseQuery, gapHint, maxVariants, completion) ==
    PlannerOutcome(baseQuery, gapHint, maxVariants, completion).value

(***************************************************************************)
(* extractTopSpansFromMarkdown                                              *)
(*                                                                          *)
(* markdown is the sequence of its paragraphs, the stretches of text that    *)
(* blank lines separate, each a string; <<>> is an absent or empty          *)
(* markdown. The texts of the model have no image markup and are shorter    *)
(* than the 550 characters at which a span is cut.                          *)
(***************************************************************************)
\* /^\s*[-*\u2022]|^\s*\d+\./ on a normalised block
IsListItem(p) == Len(p) > 0 /\ p[1] \in {"-", "*", "1."}

\* p.length: the characters of the words plus the blanks between them
RECURSIVE StrLength(_)
StrLength(p) ==
    IF p = <<>> THEN 0
    ELSE Len(Head(p)) + (IF Len(p) > 1 THEN 1 ELSE 0) + StrLength(Tail(p))

\* the query tokens of at least 3 characters
QueryTokens(query) == toTokens(query)

\* String.prototype.includes of a lower-cased word and a token, for the words
\* of the model: "supercars" is the one word that holds another
Includes(w, t) == w = t \/ (w = "supercars" /\ t = "cars")

\* score(p) in units of 1/1600: one per query token found in the block plus
\* min(p.length / 400, 1) * 0.25
SpanScore(p, query) ==
    1600 * Cardinality({t \in QueryTokens(query) :
                            \E i \in 1..Len(p) : Includes(Lower(p[i]), t)})
    + Min(StrLength(p), 400)

\* lines 115-119: the replace of /\s*\n\s*/g by "\n" turns every run of
\* white space that holds a line break, a blank line included, into one line
\* break: the lines of cleaned.  None of them is blank but the first, when the
\* page begins with a blank paragraph, and the last, when it ends with one
CleanedLines(markdown) ==
    LET lines == [i \in 1..Len(markdown) |-> norm(markdown[i])]
        text == SelectSeq(lines, LAMBDA p : Len(p) > 0)
    IN  IF text = <<>>
        THEN IF Len(markdown) > 1 THEN <<<<>>, <<>>>> ELSE <<<<>>>>
        ELSE (IF lines[1] = <<>> THEN <<<<>>>> ELSE <<>>)
             \o text
             \o (IF lines[Len(lines)] = <<>> THEN <<<<>>>> ELSE <<>>)

\* the lines joined by one blank (normalize after the split)
RECURSIVE JoinLines(_)
JoinLines(lines) ==
    IF lines = <<>> THEN <<>> ELSE Head(lines) \o JoinLines(Tail(lines))

\* lines 120-122: split(/\n\s*\n/) on cleaned, which has no blank line left:
\* one block, the whole text
SplitBlocks(lines) == <<JoinLines(lines)>>

extractTopSpansFromMarkdown(markdown, query, maxSpans) ==
    LET blocks == SelectSeq(SplitBlocks(CleanedLines(markdown)),
                            LAMBDA p : Len(p) > 0 /\ ~IsListItem(p))
        scored == [i \in 1..Len(blocks) |->
                    [p |-> blocks[i], score |-> SpanScore(blocks[i], query)]]
        sorted == SortByScore(<<>>, scored)
        top == Slice(sorted, IF maxSpans > 1 THEN maxSpans ELSE 1)
    IN  IF \A i \in 1..Len(markdown) : norm(markdown[i]) = <<>> THEN <<>>
        ELSE [i \in 1..Len(top) |-> top[i].p]

(***************************************************************************)
(* evaluateAnswerWithLLM                                                    *)
(*                                                                          *)
(* completion is what generateText delivers: [kind |-> "throw"] when the    *)
(* call fails, [kind |-> "text", json |-> FALSE] for a reply JSON.parse     *)
(* rejects, else the parsed object: answered (its truthiness), confidence   *)
(* (hundredths; isNumber FALSE when Number() gives NaN), missing_facts      *)
(* (isArray FALSE when it is no array).                                     *)
(***************************************************************************)
NeutralVerdict == [answered |-> FALSE, confidence |-> 0, missing_facts |-> <<>>]

\* the inner try and catch (lines 171-182): the verdict read from the reply
EvaluatorParse(completion) ==
    IF ~completion.json THEN NeutralVerdict
    ELSE [answered |-> completion.answered,
          confidence |-> IF completion.isNumber THEN completion.confidence
                         ELSE 0,
          missing_facts |-> IF completion.isArray THEN completion.missing_facts
                            ELSE <<>>]

\* the outer try block (lines 152-182): it throws when generateText does
EvaluatorTry(query, spansByUrl, completion) ==
    IF completion.kind = "throw"
    THEN [raised |-> TRUE, verdict |-> NeutralVerdict]
    ELSE [raised |-> FALSE, verdict |-> EvaluatorParse(completion)]

\* what is thrown inside the try block leaves the function
EvaluatorCatch_Rethrow(tried) == tried

\* the outer catch block (lines 183-185)
EvaluatorCatch(tried) ==
    IF tried.raised THEN [raised |-> FALSE, verdict |-> NeutralVerdict]
    ELSE tried

\* the call as the controller sees it: whether it raised, and the verdict
EvaluatorOutcome(query, spansByUrl, completion) ==
    EvaluatorCatch(EvaluatorTry(query, spansByUrl, completion))

evaluateAnswerWithLLM(query, spansByUrl, completion) ==
    EvaluatorOutcome(query, spansByUrl, completion).verdict

\* Array.prototype.join("; ") on strings: every string but the last is
\* followed by ";" and a blank
RECURSIVE JoinFacts(_)
JoinFacts(facts) ==
    IF facts = <<>> THEN <<>>
    ELSE IF Len(facts) = 1 THEN Head(facts)
    ELSE LET f == Head(facts) IN
         (IF f = <<>> THEN <<";">>
          ELSE [f EXCEPT ![Len(f)] = f[Len(f)] \o ";"])
         \o JoinFacts(Tail(facts))

(***************************************************************************)
(* The environment: what the collaborators can deliver                      *)
(***************************************************************************)
\* req.body.query
BaseQuery == <<"Best", "cars">>

\* the team blocklist behind isUrlBlocked
BlockedUrls == {"x.com"}

isUrlBlocked(url) == url \in BlockedUrls

\* getCategoryFromUrl(url, categoryMap): the first rule that matches
CategoryRules == <<[pattern |-> "a.com", category |-> "research"]>>

getCategoryFromUrl(url) ==
    IF \E i \in 1..Len(CategoryRules) : CategoryRules[i].pattern = url
    THEN CategoryRules[CHOOSE i \in 1..Len(CategoryRules) :
            /\ CategoryRules[i].pattern = url
            /\ \A j \in 1..(i - 1) : CategoryRules[j].pattern # url].category
    ELSE "unlabeled"

\* replies of the completion backend to the expansion prompt
ExpandCompletions ==
    {[kind |-> "throw"],
     [kind |-> "text",
      text |-> [fence |-> "none", form |-> "array", entries |-> <<>>]],
     [kind |-> "text",
      text |-> [fence |-> "json", form |-> "array",
                entries |-> <<<<"best", "", "cars">>, <<"cheap", "cars">>>>]]}

\* results of one search() call
SearchValues ==
    {[web |-> <<Item("a.com", 1, <<"cars">>, <<"best", "cars", "ranked">>),
                Item("x.com", 2, <<"cars">>, <<"cheap", "cars">>)>>,
      images |-> <<Item("x.com", 0, <<"cars">>, <<>>)>>,
      news |-> <<>>],
     [web |-> <<Item("x.com", 1, <<"best">>, <<>>),
                Item("b.com", 2, <<"cars">>, <<"cheap", "cars">>)>>,
      images |-> <<>>,
      news |-> <<NewsItem("b.com", 0, <<"news">>, <<"cars", "news">>),
                 NewsItem("x.com", 0, <<"news">>, <<"cheap", "news">>)>>]}

\* one more answer, with an image the blocklist lets through
ImageSearchValues ==
    {[web |-> <<>>,
      images |-> <<Item("c.com", 0, <<"cars">>, <<>>),
                   Item("x.com", 0, <<"cars">>, <<>>)>>,
      news |-> <<>>]}

\* a search without a single result
EmptySearchValues == {[web |-> <<>>, images |-> <<>>, news |-> <<>>]}

\* the answers a search() call is drawn from: asynchronous requests, which
\* end with the submission of their jobs, draw from the menu with the image;
\* the synchronous requests with limit 1 of a deployment without the
\* database draw from the menu with the empty answer
SearchMenu(async, limit, db) ==
    IF async THEN SearchValues \cup ImageSearchValues
    ELSE IF limit = 1 /\ ~db THEN SearchValues \cup EmptySearchValues
    ELSE SearchValues

\* what a collaborator call can throw: [name, message], name being the
\* error's class, "Object" for a thrown object that is no Error
GenericError == [name |-> "Error", message |-> "upstream failed"]
TimeoutError == [name |-> "ScrapeJobTimeoutError", message |-> "timed out"]
NoError == [name |-> "", message |-> ""]

\* the error the cost-tracking query answers with (line 398) and line 408
\* throws: an object with a message that is no instance of Error
costTrackingError == [name |-> "Object", message |-> "query failed"]

\* error instanceof Error
InstanceOfError(error) == error.name # "Object"

\* String(error) of an object that is no Error
OBJECT_STRING == "[object Object]"

\* const errMsg = error instanceof Error ? error.message : String(error);
\* (line 421)
errMsg(error) ==
    IF InstanceOfError(error) THEN error.message ELSE OBJECT_STRING

\* the Document waitForJob delivers for a url when the scrape succeeds: the
\* pages of a.com and b.com have text, the other pages have none
ScrapedBody(url) ==
    [kind |-> "scraped",
     markdown |-> IF url = "a.com" THEN <<<<"best", "cars", "here">>>>
                  ELSE IF url = "b.com" THEN <<<<"cheap", "cars">>>>
                  ELSE <<>>,
     statusCode |-> 200, error |-> ""]

\* the facts "fact1" .. "factn", each a one-word string
Facts(n) == [i \in 1..n |-> <<"fact" \o ToString(i)>>]

\* replies of the completion backend to the evaluation prompt
EvalCompletions ==
    {[kind |-> "throw", json |-> FALSE, answered |-> FALSE, isNumber |-> FALSE,
      confidence |-> 0, isArray |-> FALSE, missing_facts |-> <<>>],
     [kind |-> "text", json |-> FALSE, answered |-> FALSE, isNumber |-> FALSE,
      confidence |-> 0, isArray |-> FALSE, missing_facts |-> <<>>],
     [kind |-> "text", json |-> TRUE, answered |-> TRUE, isNumber |-> TRUE,
      confidence |-> 100, isArray |-> TRUE, missing_facts |-> <<>>],
     [kind |-> "text", json |-> TRUE, answered |-> TRUE, isNumber |-> TRUE,
      confidence |-> CONVERGENCE_THRESHOLD - 1, isArray |-> TRUE,
      missing_facts |-> Facts(GAP_FACTS + MaxExtraFacts)],
     [kind |-> "text", json |-> TRUE, answered |-> FALSE, isNumber |-> TRUE,
      confidence |-> CONVERGENCE_THRESHOLD, isArray |-> TRUE,
      missing_facts |-> Facts(2)]}

\* what calculateCreditsToBeBilled returns for a document and its cost
\* tracking in the model: more for a page with content than for one without
CreditsFor(document, costTracking) ==
    IF document.body.markdown # <<>> THEN 2 ELSE 1

\* the requests of the model: forceZDR, whether the body passes the schema,
\* whether it carries the search-preview token, req.body.limit
Requests ==
    {[forceZDR |-> TRUE, valid |-> TRUE, isSearchPreview |-> FALSE, limit |-> 1],
     [forceZDR |-> TRUE, valid |-> FALSE, isSearchPreview |-> FALSE, limit |-> 1],
     [forceZDR |-> FALSE, valid |-> FALSE, isSearchPreview |-> FALSE, limit |-> 1],
     [forceZDR |-> FALSE, valid |-> TRUE, isSearchPreview |-> TRUE, limit |-> 1],
     [forceZDR |-> FALSE, valid |-> TRUE, isSearchPreview |-> FALSE, limit |-> 2]}

\* the values of process.env.USE_DB_AUTHENTICATION === "true" a request is
\* run under: both for the requests with limit 1, the value of a deployment
\* without the database (the variable unset) for the request with limit 2
Deployments(r) == IF r.limit = 1 THEN BOOLEAN ELSE {FALSE}

(***************************************************************************)
(* searchController: state                                                  *)
(***************************************************************************)
VARIABLES
    shouldScrape,        \* the request-scope switch of line 507
    isAsyncScraping,     \* the request-scope switch of line 508
    req,                 \* the request: forceZDR, valid, isSearchPreview, limit
    pc,                  \* where the controller is suspended
    iteration,           \* the loop variable
    gapHint,             \* [defined, text]; defined FALSE is undefined
    expandedQueries,     \* of the current iteration
    variantSearches,     \* the search() promises of the current iteration
    searchResponse,      \* of the current iteration
    totalResultsCount,   \* of the current iteration
    itemsToScrape,       \* of the current iteration
    jobs,                \* the scrape promises of the current iteration,
                         \* each with what the fetch queue holds of its job
    results,             \* what Promise.all(allPromises) resolved with
    spansByUrl,          \* the evidence of the current iteration
    evalResult,          \* the verdict of the current iteration
    credits_billed,
    finalSearchResponse, \* [set, value]; set FALSE is null
    answered,            \* with it line 928 sets confidence, which is
                         \* only logged: the model does not keep it
    responses,           \* what was sent with res.status(...).json(...)
    billCalls,           \* the billTeam calls, each its credits argument
    billing,             \* the promise of each billTeam call: "pending",
                         \* "fulfilled" or "rejected"
    log,                 \* the calls made to the collaborators so far
    USE_DB_AUTHENTICATION, \* process.env.USE_DB_AUTHENTICATION === "true",
                         \* read at line 397 each time a job has been removed
    call                 \* a helper of the file called on its own: its name,
                         \* its arguments and, once it has returned, its
                         \* result; NoCall inside a request

vars == <<shouldScrape, isAsyncScraping, req, pc, iteration, gapHint,
          expandedQueries, variantSearches, searchResponse, totalResultsCount,
          itemsToScrape, jobs, results, spansByUrl, evalResult, credits_billed,
          finalSearchResponse, answered, responses, billCalls, billing, log,
          USE_DB_AUTHENTICATION, call>>

\* what no step of a request changes
config == <<shouldScrape, isAsyncScraping, req, USE_DB_AUTHENTICATION, call>>

\* the state of a request
request == <<shouldScrape, isAsyncScraping, req, pc, iteration, gapHint,
             expandedQueries, variantSearches, searchResponse,
             totalResultsCount, itemsToScrape, jobs, results, spansByUrl,
             evalResult, credits_billed, finalSearchResponse, answered,
             responses, billCalls, billing, log, USE_DB_AUTHENTICATION>>

NoCall == [fn |-> "", returned |-> FALSE]

locals == <<expandedQueries, variantSearches, searchResponse,
            totalResultsCount, itemsToScrape, jobs, results, spansByUrl,
            evalResult>>

NoHint == [defined |-> FALSE, text |-> <<>>]
Hint(text) == [defined |-> TRUE, text |-> text]

\* a category of a SearchV2Response: absent, or a list
NoList == [present |-> FALSE, items |-> <<>>]
List(items) == [present |-> TRUE, items |-> items]

\* {} as a SearchV2Response
EmptySearchResponse == [web |-> NoList, images |-> NoList, news |-> NoList]

NoScrapeIds == [web |-> NoList, images |-> NoList, news |-> NoList]

\* new CostTracking().toJSON()
EmptyCostTracking == "empty"
\* the cost_tracking column of the job's row
StoredCostTracking == "stored"
\* costTrackingResponse?.[0]?.cost_tracking when the query returns no row
UndefinedCostTracking == "undefined"

\* what the cost-tracking query of line 399 finds for a job: the row's cost
\* tracking, or no row
CostTrackingAnswers == {StoredCostTracking, UndefinedCostTracking}

Categories == {"web", "images", "news"}

\* the state in which a request arrives, the two switches apart
Arrived ==
    /\ req \in Requests
    /\ USE_DB_AUTHENTICATION \in Deployments(req)
    /\ pc = "start"
    /\ iteration = 0
    /\ gapHint = NoHint
    /\ expandedQueries = <<>>
    /\ variantSearches = <<>>
    /\ searchResponse = EmptySearchResponse
    /\ totalResultsCount = 0
    /\ itemsToScrape = <<>>
    /\ jobs = <<>>
    /\ results = <<>>
    /\ spansByUrl = <<>>
    /\ evalResult = NeutralVerdict
    /\ credits_billed = 0
    /\ finalSearchResponse = [set |-> FALSE, value |-> EmptySearchResponse]
    /\ answered = FALSE
    /\ responses = <<>>
    /\ billCalls = <<>>
    /\ billing = <<>>
    /\ log = [expand |-> <<>>, searches |-> <<>>, fusions |-> 0,
              dispatches |-> 0, submitted |-> {}, credited |-> <<>>,
              extractions |-> 0, evaluations |-> <<>>, reranks |-> 0,
              replies |-> <<>>]
    /\ call = NoCall

\* const shouldScrape = true; const isAsyncScraping = false; (lines 507-508)
Init ==
    /\ shouldScrape = TRUE
    /\ isAsyncScraping = FALSE
    /\ Arrived

\* the two switches in every position: next to the program, the builds in
\* which line 507 or line 508 is edited, where the branches of lines 605-608
\* and 719-818 are taken.  The program's behaviours are those that start in
\* Init.
AnyModeInit ==
    /\ shouldScrape \in BOOLEAN
    /\ isAsyncScraping \in BOOLEAN
    /\ Arrived

(***************************************************************************)
(* searchController: responses                                              *)
(***************************************************************************)
Response(status, success, hasData, data, ids, creditsUsed, error, details) ==
    [status |-> status, success |-> success, hasData |-> hasData,
     data |-> data, scrapeIds |-> ids, creditsUsed |-> creditsUsed,
     error |-> error, details |-> details]

ErrorResponse(status, error, details) ==
    Response(status, FALSE, FALSE, EmptySearchResponse, NoScrapeIds, 0, error,
             details)

\* the error of lines 465-467
ZDR_MESSAGE ==
    "Your team has zero data retention enabled. This is not supported on search. Please contact support@firecrawl.com to unblock this feature."

\* a schema error is answered like any other error
CatchResponse_NoZod(error) ==
    IF error.name = "ScrapeJobTimeoutError"
    THEN ErrorResponse(408, error.message, FALSE)
    ELSE ErrorResponse(500, error.message, FALSE)

\* the catch block of the controller
CatchResponse(error) ==
    IF error.name = "ZodError"
    THEN ErrorResponse(400, "Invalid request body", TRUE)
    ELSE IF error.name = "ScrapeJobTimeoutError"
    THEN ErrorResponse(408, error.message, FALSE)
    ELSE ErrorResponse(500, error.message, FALSE)

\* the rejection of a team under forced zero data retention without its
\* return
Receive_NoReturn ==
    /\ pc = "start"
    /\ IF req.forceZDR
       THEN /\ responses' = Append(responses,
                                   ErrorResponse(400, ZDR_MESSAGE, FALSE))
            /\ pc' = "expand"
       ELSE IF ~req.valid
       THEN /\ responses' = Append(responses,
                CatchResponse([name |-> "ZodError", message |-> "invalid"]))
            /\ pc' = "done"
       ELSE /\ responses' = responses
            /\ pc' = "expand"
    /\ UNCHANGED <<config, iteration, gapHint, locals, credits_billed,
                   finalSearchResponse, answered,
                   billCalls, billing, log>>

(***************************************************************************)
(* searchController: entry                                                  *)
(***************************************************************************)
\* lines 445-515: the zero-data-retention rejection, the schema parse and
\* the set-up of the loop
Receive ==
    /\ pc = "start"
    /\ IF req.forceZDR
       THEN /\ responses' = Append(responses,
                                   ErrorResponse(400, ZDR_MESSAGE, FALSE))
            /\ pc' = "done"
       ELSE IF ~req.valid
       THEN /\ responses' = Append(responses,
                CatchResponse([name |-> "ZodError", message |-> "invalid"]))
            /\ pc' = "done"
       ELSE /\ responses' = responses
            /\ pc' = "expand"
    /\ UNCHANGED <<config, iteration, gapHint, locals, credits_billed,
                   finalSearchResponse, answered,
                   billCalls, billing, log>>

(***************************************************************************)
(* searchController: expansion and search fan-out                           *)
(***************************************************************************)
\* off by one: one iteration more than the budget
LoopContinues_OffByOne(iter) == iter <= MAX_ITERATIONS

\* the test of the for statement (line 515)
LoopContinues(iter) == iter < MAX_ITERATIONS

\* the for statement's iteration++ and test, after a body that did not break
NextPc(iter) == IF LoopContinues(iter + 1) THEN "expand" ELSE "finish"

PendingSearch == [st |-> "pending",
                  value |-> [web |-> <<>>, images |-> <<>>, news |-> <<>>]]

\* lines 516-539 up to the await of Promise.all: the expansion and one
\* search() call per expanded query
Expand ==
    /\ pc = "expand"
    /\ LoopContinues(iteration)
    /\ \E completion \in ExpandCompletions :
        LET qs == expandQueriesPlanner(BaseQuery, gapHint, MAX_VARIANTS,
                                       completion)
        IN  /\ expandedQueries' = qs
            /\ variantSearches' = [i \in 1..Len(qs) |-> PendingSearch]
            /\ log' = [log EXCEPT !.expand = Append(@, gapHint),
                                  !.credited = <<>>,
                                  !.searches = Append(@, Len(qs))]
    /\ searchResponse' = EmptySearchResponse
    /\ totalResultsCount' = 0
    /\ itemsToScrape' = <<>>
    /\ jobs' = <<>>
    /\ results' = <<>>
    /\ spansByUrl' = <<>>
    /\ evalResult' = NeutralVerdict
    /\ pc' = "search"
    /\ UNCHANGED <<config, iteration, gapHint, credits_billed,
                   finalSearchResponse, answered,
                   responses, billCalls, billing>>

\* one search() call is fulfilled, also when the controller has answered for
\* the rejection of another one in the meantime
SearchFulfil(i) ==
    /\ pc \in {"search", "done"}
    /\ variantSearches[i].st = "pending"
    /\ \E v \in SearchMenu(isAsyncScraping, req.limit,
                            USE_DB_AUTHENTICATION) :
        variantSearches' = [variantSearches EXCEPT
                                ![i] = [st |-> "fulfilled", value |-> v]]
    /\ UNCHANGED <<config, pc, iteration, gapHint, expandedQueries,
                   searchResponse, totalResultsCount, itemsToScrape, jobs,
                   results, spansByUrl, evalResult, credits_billed,
                   finalSearchResponse, answered,
                   responses, billCalls, billing, log>>

\* the rejection of one search() call is swallowed: nothing is thrown into
\* the catch block
SearchReject_Swallowed(i) ==
    /\ pc = "search"
    /\ variantSearches[i].st = "pending"
    /\ variantSearches' = [variantSearches EXCEPT ![i].st = "rejected"]
    /\ UNCHANGED <<config, pc, iteration, gapHint, expandedQueries,
                   searchResponse, totalResultsCount, itemsToScrape, jobs,
                   results, spansByUrl, evalResult, credits_billed,
                   finalSearchResponse, answered, responses, billCalls, billing, log>>

\* one search() call is rejected: Promise.all rejects with the first
\* rejection, the await throws and the catch block answers (lines 523,
\* 1054-1081); a later rejection changes nothing more
SearchReject(i) ==
    /\ pc \in {"search", "done"}
    /\ variantSearches[i].st = "pending"
    /\ variantSearches' = [variantSearches EXCEPT ![i].st = "rejected"]
    /\ IF pc = "search"
       THEN \E error \in {GenericError, TimeoutError} :
                responses' = Append(responses, CatchResponse(error))
       ELSE responses' = responses
    /\ pc' = "done"
    /\ UNCHANGED <<config, iteration, gapHint, expandedQueries,
                   searchResponse, totalResultsCount, itemsToScrape, jobs,
                   results, spansByUrl, evalResult, credits_billed,
                   finalSearchResponse, answered,
                   billCalls, billing, log>>

(***************************************************************************)
(* searchController: fusion, labels, limit, items to scrape                 *)
(***************************************************************************)
\* lines 541-555
Fuse(values, qs) ==
    [web |-> List(rrfMerge([i \in 1..Len(values) |-> values[i].web], qs,
                           RRF_K)),
     images |-> List(rrfMerge([i \in 1..Len(values) |-> values[i].images], qs,
                              RRF_K)),
     news |-> List(rrfMerge([i \in 1..Len(values) |-> values[i].news], qs,
                            RRF_K))]

LabelItems(items) ==
    [i \in 1..Len(items) |->
        [items[i] EXCEPT !.category =
            IF items[i].url # "" THEN getCategoryFromUrl(items[i].url)
            ELSE ""]]

\* lines 557-573: web and news get a category, images do not
Label(r) ==
    [r EXCEPT !.web = List(LabelItems(r.web.items)),
              !.news = List(LabelItems(r.news.items))]

\* the lists are left at their fused length
ApplyLimit_NoLimit(r, limit) ==
    [c \in Categories |-> List(r[c].items)]

\* lines 575-600
ApplyLimit(r, limit) ==
    [c \in Categories |-> List(Slice(r[c].items, limit))]

TotalResultsCount(r) ==
    Len(r.web.items) + Len(r.images.items) + Len(r.news.items)

\* the blocklist is not asked
ScrapeInputs_Unfiltered(items, type) ==
    LET kept == SelectSeq(items, LAMBDA it : it.url # "")
    IN  [i \in 1..Len(kept) |->
            [item |-> kept[i], type |-> type,
             scrapeInput |->
                [url |-> kept[i].url, title |-> kept[i].title,
                 description |-> CASE type = "web" -> kept[i].description
                                   [] type = "news" -> kept[i].snippet
                                   [] OTHER -> <<>>]]]

\* lines 627-693 for one category
ScrapeInputs(items, type) ==
    LET kept == SelectSeq(items,
                    LAMBDA it : it.url # "" /\ ~isUrlBlocked(it.url))
    IN  [i \in 1..Len(kept) |->
            [item |-> kept[i], type |-> type,
             scrapeInput |->
                [url |-> kept[i].url, title |-> kept[i].title,
                 description |-> CASE type = "web" -> kept[i].description
                                   [] type = "news" -> kept[i].snippet
                                   [] OTHER -> <<>>]]]

\* lines 627-693
ItemsToScrape(r) ==
    ScrapeInputs(r.web.items, "web")
    \o ScrapeInputs(r.news.items, "news")
    \o ScrapeInputs(r.images.items, "image")

StartedJob(iter, i) ==
    [st |-> "started", added |-> FALSE, jobId |-> <<iter, i>>,
     body |-> NoDoc, error |-> NoError, costTracking |-> EmptyCostTracking,
     inQueue |-> FALSE, removals |-> 0]

\* a fusion without a single item ends the loop on the spot
SearchJoin_StopsWhenEmpty ==
    /\ pc = "search"
    /\ \A i \in 1..Len(variantSearches) : variantSearches[i].st = "fulfilled"
    /\ LET values == [i \in 1..Len(variantSearches) |->
                        variantSearches[i].value]
           limited == ApplyLimit(Label(Fuse(values, expandedQueries)),
                                 req.limit)
           items == ItemsToScrape(limited)
       IN  /\ searchResponse' = limited
           /\ totalResultsCount' = TotalResultsCount(limited)
           /\ itemsToScrape' = items
           /\ jobs' = [i \in 1..Len(items) |-> StartedJob(iteration, i)]
           /\ pc' = IF items = <<>> THEN "finish" ELSE "dispatch"
           /\ log' = [log EXCEPT !.fusions = @ + 1, !.dispatches = @ + 1]
    /\ UNCHANGED <<config, gapHint, expandedQueries, variantSearches, results,
                   spansByUrl, evalResult, finalSearchResponse, answered,
                   responses, billCalls, billing, credits_billed, iteration>>

\* lines 523-717 from the fulfilment of Promise.all to the next await: the
\* fusion, the labels, the limit, and either the count of line 607 or the
\* start of one scrape per eligible item
SearchJoin ==
    /\ pc = "search"
    /\ \A i \in 1..Len(variantSearches) : variantSearches[i].st = "fulfilled"
    /\ LET values == [i \in 1..Len(variantSearches) |->
                        variantSearches[i].value]
           limited == ApplyLimit(Label(Fuse(values, expandedQueries)),
                                 req.limit)
           items == ItemsToScrape(limited)
       IN  /\ searchResponse' = limited
           /\ totalResultsCount' = TotalResultsCount(limited)
           /\ IF ~shouldScrape
              THEN /\ credits_billed' = TotalResultsCount(limited)
                   /\ iteration' = iteration + 1
                   /\ pc' = NextPc(iteration)
                   /\ log' = [log EXCEPT !.fusions = @ + 1]
                   /\ UNCHANGED <<itemsToScrape, jobs>>
              ELSE /\ itemsToScrape' = items
                   /\ jobs' = [i \in 1..Len(items) |->
                                StartedJob(iteration, i)]
                   /\ pc' = "dispatch"
                   /\ log' = [log EXCEPT !.fusions = @ + 1,
                                         !.dispatches = @ + 1]
                   /\ UNCHANGED <<credits_billed, iteration>>
    /\ UNCHANGED <<config, gapHint, expandedQueries, variantSearches, results,
                   spansByUrl, evalResult, finalSearchResponse, answered, responses, billCalls, billing>>

(***************************************************************************)
(* scrapeSearchResult and startScrapeJob: one scrape                        *)
(***************************************************************************)
\* the placeholder document carries no error status
FailedJob_NoStatus(job, error) ==
    [job EXCEPT !.st = "failed",
                !.body = [kind |-> "placeholder", markdown |-> <<>>,
                          statusCode |-> 0, error |-> ""],
                !.error = error,
                !.costTracking = EmptyCostTracking]

\* the catch block of scrapeSearchResult (lines 420-442): the job's promise
\* is fulfilled with the placeholder document
FailedJob(job, error) ==
    [job EXCEPT !.st = "failed",
                !.body = [kind |-> "placeholder", markdown |-> <<>>,
                          statusCode |-> ERROR_STATUS,
                          error |-> errMsg(error)],
                !.error = error,
                !.costTracking = EmptyCostTracking]

\* startScrapeJob up to its second await (lines 302-319): getJobPriority
\* resolves and addScrapeJob is called, or getJobPriority rejects; in
\* synchronous mode the rejection is caught by scrapeSearchResult.  A job of
\* an asynchronous dispatch runs on after the controller has answered for the
\* rejection of another job
JobPriority(i) ==
    /\ pc \in {"dispatch", "done"}
    /\ jobs[i].st = "started"
    /\ ~jobs[i].added
    /\ \/ /\ jobs' = [jobs EXCEPT ![i].added = TRUE]
          /\ log' = [log EXCEPT !.submitted =
                        @ \cup {[url |-> itemsToScrape[i].scrapeInput.url,
                                 type |-> itemsToScrape[i].type]}]
       \/ /\ ~isAsyncScraping
          /\ jobs' = [jobs EXCEPT ![i] = FailedJob(@, GenericError)]
          /\ log' = log
    /\ UNCHANGED <<config, pc, iteration, gapHint, expandedQueries,
                   variantSearches, searchResponse, totalResultsCount,
                   itemsToScrape, results, spansByUrl, evalResult,
                   credits_billed, finalSearchResponse, answered,
                   responses, billCalls, billing>>

\* the await of addScrapeJob (line 319) in synchronous mode: the job is in
\* the queue, or the rejection is caught by scrapeSearchResult
JobSubmit(i) ==
    /\ pc = "dispatch"
    /\ ~isAsyncScraping
    /\ jobs[i].st = "started"
    /\ jobs[i].added
    /\ \/ jobs' = [jobs EXCEPT ![i].st = "waiting", ![i].inQueue = TRUE]
       \/ jobs' = [jobs EXCEPT ![i] = FailedJob(@, GenericError)]
    /\ UNCHANGED <<config, pc, iteration, gapHint, expandedQueries,
                   variantSearches, searchResponse, totalResultsCount,
                   itemsToScrape, results, spansByUrl, evalResult,
                   credits_billed, finalSearchResponse, answered,
                   responses, billCalls, billing, log>>

\* the timeout of waitForJob is not caught: it goes to the catch block of
\* the controller
JobAwait_TimeoutEscapes(i) ==
    /\ pc = "dispatch"
    /\ ~isAsyncScraping
    /\ jobs[i].st = "waiting"
    /\ \/ /\ jobs' = [jobs EXCEPT
                        ![i].st = "awaited",
                        ![i].body = ScrapedBody(itemsToScrape[i].scrapeInput.url)]
          /\ UNCHANGED <<pc, responses>>
       \/ /\ jobs' = [jobs EXCEPT ![i] = FailedJob(@, GenericError)]
          /\ UNCHANGED <<pc, responses>>
       \/ /\ jobs' = [jobs EXCEPT ![i].st = "rejected",
                                   ![i].error = TimeoutError]
          /\ responses' = Append(responses, CatchResponse(TimeoutError))
          /\ pc' = "done"
    /\ UNCHANGED <<config, iteration, gapHint, expandedQueries,
                   variantSearches, searchResponse, totalResultsCount,
                   itemsToScrape, results, spansByUrl, evalResult,
                   credits_billed, finalSearchResponse, answered, billCalls, billing,
                   log>>

\* the job removed from the queue also when its await failed
JobAwait_RemovesOnFailure(i) ==
    /\ pc = "dispatch"
    /\ ~isAsyncScraping
    /\ jobs[i].st = "waiting"
    /\ \/ jobs' = [jobs EXCEPT
                        ![i].st = "awaited",
                        ![i].body = ScrapedBody(itemsToScrape[i].scrapeInput.url)]
       \/ \E error \in {GenericError, TimeoutError} :
            jobs' = [jobs EXCEPT ![i] =
                        [FailedJob(@, error) EXCEPT
                            !.inQueue = FALSE, !.removals = @ + 1]]
    /\ UNCHANGED <<config, pc, iteration, gapHint, expandedQueries,
                   variantSearches, searchResponse, totalResultsCount,
                   itemsToScrape, results, spansByUrl, evalResult,
                   credits_billed, finalSearchResponse, answered, responses, billCalls, billing, log>>

\* waitForJob (line 378): the Document, or a failure (a timeout included)
JobAwait(i) ==
    /\ pc = "dispatch"
    /\ ~isAsyncScraping
    /\ jobs[i].st = "waiting"
    /\ \/ jobs' = [jobs EXCEPT
                        ![i].st = "awaited",
                        ![i].body = ScrapedBody(itemsToScrape[i].scrapeInput.url)]
       \/ \E error \in {GenericError, TimeoutError} :
            jobs' = [jobs EXCEPT ![i] = FailedJob(@, error)]
    /\ UNCHANGED <<config, pc, iteration, gapHint, expandedQueries,
                   variantSearches, searchResponse, totalResultsCount,
                   itemsToScrape, results, spansByUrl, evalResult,
                   credits_billed, finalSearchResponse, answered, responses, billCalls, billing, log>>

\* the await of scrapeQueue.removeJob (line 387) and what follows it up to
\* the next await: the job leaves the queue and, with the database, the
\* cost-tracking query is sent; without it the promise is fulfilled with the
\* document and an empty cost tracking (lines 389-419); or the removal fails
JobRemove(i) ==
    /\ pc = "dispatch"
    /\ ~isAsyncScraping
    /\ jobs[i].st = "awaited"
    /\ jobs[i].inQueue
    /\ \/ /\ USE_DB_AUTHENTICATION
          /\ jobs' = [jobs EXCEPT ![i].inQueue = FALSE,
                                   ![i].removals = @ + 1]
       \/ /\ ~USE_DB_AUTHENTICATION
          /\ jobs' = [jobs EXCEPT ![i].st = "done",
                                   ![i].inQueue = FALSE,
                                   ![i].removals = @ + 1,
                                   ![i].costTracking = EmptyCostTracking]
       \/ jobs' = [jobs EXCEPT ![i] = FailedJob(@, GenericError)]
    /\ UNCHANGED <<config, pc, iteration, gapHint, expandedQueries,
                   variantSearches, searchResponse, totalResultsCount,
                   itemsToScrape, results, spansByUrl, evalResult,
                   credits_billed, finalSearchResponse, answered,
                   responses, billCalls, billing, log>>

\* the await of the cost-tracking query (lines 397-419), made for a job that
\* has left the queue: the row's cost tracking, undefined when there is no row
\* (line 411); or the await rejects, or the query answers with its error
\* object, which line 408 throws into the catch block
JobCostTracking(i) ==
    /\ pc = "dispatch"
    /\ ~isAsyncScraping
    /\ USE_DB_AUTHENTICATION
    /\ jobs[i].st = "awaited"
    /\ ~jobs[i].inQueue
    /\ \/ \E answer \in CostTrackingAnswers :
            jobs' = [jobs EXCEPT ![i].st = "done",
                                 ![i].costTracking = answer]
       \/ \E error \in {GenericError, costTrackingError} :
            jobs' = [jobs EXCEPT ![i] = FailedJob(@, error)]
    /\ UNCHANGED <<config, pc, iteration, gapHint, expandedQueries,
                   variantSearches, searchResponse, totalResultsCount,
                   itemsToScrape, results, spansByUrl, evalResult,
                   credits_billed, finalSearchResponse, answered,
                   responses, billCalls, billing, log>>

\* what the promise of scrapeSearchResult is fulfilled with (lines 389-419,
\* 427-441): { document, costTracking }
JobResult(job, scrapeInput) ==
    [document |-> [title |-> scrapeInput.title,
                   description |-> scrapeInput.description,
                   url |-> scrapeInput.url,
                   body |-> job.body],
     costTracking |-> job.costTracking]

\* a race instead of a join: the first settled scrape ends the wait
DispatchJoin_Race ==
    /\ pc = "dispatch"
    /\ ~isAsyncScraping
    /\ \E i \in 1..Len(jobs) : jobs[i].st \in {"done", "failed"}
    /\ results' = [i \in 1..Len(jobs) |->
                    JobResult(jobs[i], itemsToScrape[i].scrapeInput)]
    /\ pc' = "credits"
    /\ UNCHANGED <<config, iteration, gapHint, expandedQueries,
                   variantSearches, searchResponse, totalResultsCount,
                   itemsToScrape, jobs, spansByUrl, evalResult,
                   credits_billed, finalSearchResponse, answered,
                   responses, billCalls, billing, log>>

\* the join goes on only when every scrape has delivered its page
DispatchJoin_WaitsForSuccess ==
    /\ pc = "dispatch"
    /\ ~isAsyncScraping
    /\ \A i \in 1..Len(jobs) : jobs[i].st = "done"
    /\ results' = [i \in 1..Len(jobs) |->
                    JobResult(jobs[i], itemsToScrape[i].scrapeInput)]
    /\ pc' = "credits"
    /\ UNCHANGED <<config, iteration, gapHint, expandedQueries,
                   variantSearches, searchResponse, totalResultsCount,
                   itemsToScrape, jobs, spansByUrl, evalResult,
                   credits_billed, finalSearchResponse, answered,
                   responses, billCalls, billing, log>>

\* lines 717, 821-888 from the fulfilment of Promise.all(allPromises) to the
\* await of the credit promises
DispatchJoin ==
    /\ pc = "dispatch"
    /\ ~isAsyncScraping
    /\ \A i \in 1..Len(jobs) : jobs[i].st \in {"done", "failed"}
    /\ results' = [i \in 1..Len(jobs) |->
                    JobResult(jobs[i], itemsToScrape[i].scrapeInput)]
    /\ pc' = "credits"
    /\ UNCHANGED <<config, iteration, gapHint, expandedQueries,
                   variantSearches, searchResponse, totalResultsCount,
                   itemsToScrape, jobs, spansByUrl, evalResult,
                   credits_billed, finalSearchResponse, answered, responses, billCalls, billing, log>>

(***************************************************************************)
(* searchController: asynchronous dispatch                                  *)
(***************************************************************************)
\* startScrapeJob (lines 698-705) is fulfilled with the job id: the job is
\* in the queue, also when the controller has answered for the rejection of
\* another job in the meantime
AsyncSubmit(i) ==
    /\ pc \in {"dispatch", "done"}
    /\ isAsyncScraping
    /\ jobs[i].st = "started"
    /\ jobs[i].added
    /\ jobs' = [jobs EXCEPT ![i].st = "submitted", ![i].inQueue = TRUE]
    /\ log' = log
    /\ UNCHANGED <<config, pc, iteration, gapHint, expandedQueries,
                   variantSearches, searchResponse, totalResultsCount,
                   itemsToScrape, results, spansByUrl, evalResult,
                   credits_billed, finalSearchResponse, answered,
                   responses, billCalls, billing>>

\* startScrapeJob is rejected: Promise.all rejects with the first rejection
\* and the catch block answers; a later rejection changes nothing more
AsyncReject(i) ==
    /\ pc \in {"dispatch", "done"}
    /\ isAsyncScraping
    /\ jobs[i].st = "started"
    /\ jobs' = [jobs EXCEPT ![i].st = "rejected", ![i].error = GenericError]
    /\ log' = log
    /\ IF pc = "dispatch"
       THEN responses' = Append(responses, CatchResponse(GenericError))
       ELSE responses' = responses
    /\ pc' = "done"
    /\ UNCHANGED <<config, iteration, gapHint, expandedQueries,
                   variantSearches, searchResponse, totalResultsCount,
                   itemsToScrape, results, spansByUrl, evalResult,
                   credits_billed, finalSearchResponse, answered, billCalls, billing>>

CountType(type) ==
    Cardinality({i \in 1..Len(itemsToScrape) : itemsToScrape[i].type = type})

\* every stretch is cut from the start of allJobIds
ScrapeIds_NoOffset ==
    LET allJobIds == [i \in 1..Len(jobs) |-> jobs[i].jobId]
        cut(n) == SubSeq(allJobIds, 1, Min(n, Len(jobs)))
    IN  [web |-> IF CountType("web") > 0
                 THEN List(cut(CountType("web"))) ELSE NoList,
         news |-> IF CountType("news") > 0
                  THEN List(cut(CountType("news"))) ELSE NoList,
         images |-> IF CountType("image") > 0
                    THEN List(cut(CountType("image"))) ELSE NoList]

\* lines 721-756: allJobIds cut into the web, news and image stretches
ScrapeIds ==
    LET allJobIds == [i \in 1..Len(jobs) |-> jobs[i].jobId]
        nWeb == CountType("web")
        nNews == CountType("news")
        nImages == CountType("image")
        cut(from, n) == SubSeq(allJobIds, from + 1, Min(from + n, Len(jobs)))
    IN  [web |-> IF nWeb > 0 THEN List(cut(0, nWeb)) ELSE NoList,
         news |-> IF nNews > 0 THEN List(cut(nWeb, nNews)) ELSE NoList,
         images |-> IF nImages > 0 THEN List(cut(nWeb + nNews, nImages))
                    ELSE NoList]

\* lines 719-818: the job ids by type, and the response from inside the loop
AsyncJoin ==
    /\ pc = "dispatch"
    /\ isAsyncScraping
    /\ \A i \in 1..Len(jobs) : jobs[i].st = "submitted"
    /\ credits_billed' = Len(jobs)
    /\ responses' = Append(responses,
            Response(200, TRUE, TRUE, searchResponse,
                     ScrapeIds, Len(jobs), "", FALSE))
    /\ pc' = "done"
    /\ UNCHANGED <<config, iteration, gapHint, locals, finalSearchResponse,
                   answered, billCalls, billing, log>>

(***************************************************************************)
(* searchController: synchronous reconciliation, credits, evaluation        *)
(***************************************************************************)
\* resultsMap.get(url) (lines 825-831): the document of the last item to
\* scrape that has this url; 0 when there is none
ResultIndex(url) ==
    IF \E i \in 1..Len(itemsToScrape) : itemsToScrape[i].scrapeInput.url = url
    THEN CHOOSE i \in 1..Len(itemsToScrape) :
            /\ itemsToScrape[i].scrapeInput.url = url
            /\ \A j \in (i + 1)..Len(itemsToScrape) :
                    itemsToScrape[j].scrapeInput.url # url
    ELSE 0

\* { ...item, ...doc } (lines 839-842, 855-858, 866-869)
MergeItem(item) ==
    LET i == IF item.url = "" THEN 0 ELSE ResultIndex(item.url) IN
    IF i = 0 THEN item
    ELSE [item EXCEPT !.title = results[i].document.title,
                      !.description = results[i].document.description,
                      !.doc = results[i].document.body]

\* lines 833-871 and 902: scrapedResponse assigned over searchResponse
Scraped(r) ==
    [c \in Categories |->
        List([i \in 1..Len(r[c].items) |-> MergeItem(r[c].items[i])])]

\* lines 905-921
RECURSIVE SpansOf(_)
SpansOf(items) ==
    IF items = <<>> THEN <<>>
    ELSE LET it == Head(items)
             spans == extractTopSpansFromMarkdown(it.doc.markdown, BaseQuery,
                                                  3)
         IN  (IF it.doc.markdown # <<>> /\ spans # <<>>
              THEN <<[url |-> it.url, spans |-> spans]>>
              ELSE <<>>)
             \o SpansOf(Tail(items))

\* lines 874-888: docsWithCost.map starts one calculateCreditsToBeBilled call
\* per element of allDocsWithCostTracking, whatever the document is; the
\* calls of the running iteration, each with the state of the job behind its
\* document
CreditCalls ==
    [i \in 1..Len(results) |->
        [url |-> itemsToScrape[i].scrapeInput.url,
         type |-> itemsToScrape[i].type, job |-> jobs[i].st]]

\* the credits of the iteration added to those of the iterations before
Credits_Accumulates ==
    /\ pc = "credits"
    /\ log' = [log EXCEPT !.credited = CreditCalls,
                          !.extractions = @ + 1]
    /\ \/ LET individualCredits ==
                    [i \in 1..Len(results) |->
                        CreditsFor(results[i].document,
                                   results[i].costTracking)]
          IN  credits_billed' = credits_billed + SumSeq(individualCredits)
       \/ /\ Len(results) > 0
          /\ credits_billed' = credits_billed + totalResultsCount
    /\ searchResponse' = Scraped(searchResponse)
    /\ spansByUrl' = SpansOf(Scraped(searchResponse).web.items)
    /\ pc' = "evaluate"
    /\ UNCHANGED <<config, iteration, gapHint, expandedQueries,
                   variantSearches, totalResultsCount, itemsToScrape, jobs,
                   results, evalResult, finalSearchResponse, answered,
                   responses, billCalls, billing>>

\* lines 874-921 from the settling of the credit promises to the await of
\* evaluateAnswerWithLLM: calculateCreditsToBeBilled has answered for every
\* document of the dispatch, or one of the calls failed
Credits ==
    /\ pc = "credits"
    /\ log' = [log EXCEPT !.credited = CreditCalls,
                          !.extractions = @ + 1]
    /\ \/ LET individualCredits ==
                    [i \in 1..Len(results) |->
                        CreditsFor(results[i].document,
                                   results[i].costTracking)]
          IN  credits_billed' = SumSeq(individualCredits)
       \/ /\ Len(results) > 0
          /\ credits_billed' = totalResultsCount
    /\ searchResponse' = Scraped(searchResponse)
    /\ spansByUrl' = SpansOf(Scraped(searchResponse).web.items)
    /\ pc' = "evaluate"
    /\ UNCHANGED <<config, iteration, gapHint, expandedQueries,
                   variantSearches, totalResultsCount, itemsToScrape, jobs,
                   results, evalResult, finalSearchResponse, answered,
                   responses, billCalls, billing>>

\* simSum of the re-ranking (lines 941-953) in units of 1/scale
SimSum(item, qs, scale) ==
    SumSeq([j \in 1..Len(qs) |->
        LET f == textSim(SnippetText(item), qs[j])
        IN  (scale * f[1]) \div f[2]])

\* the list is renumbered in the order it came in
Rerank_KeepOrder(items, qs) ==
    [i \in 1..Len(items) |-> [items[i] EXCEPT !.position = i]]

\* lines 940-964: the web list by descending simSum, ties by index
Rerank(items, qs) ==
    LET scale == LCMSet({textSim(SnippetText(items[i]), qs[j])[2] :
                            i \in 1..Len(items), j \in 1..Len(qs)})
        scored == [i \in 1..Len(items) |->
                    [item |-> items[i], score |-> SimSum(items[i], qs, scale)]]
        sorted == SortByScore(<<>>, scored)
    IN  [i \in 1..Len(sorted) |-> [sorted[i].item EXCEPT !.position = i]]

\* the verdict's own answered flag is not looked at
Converged_ConfidenceOnly(verdict) ==
    verdict.confidence >= CONVERGENCE_THRESHOLD

\* line 927
Converged(verdict) ==
    verdict.answered /\ verdict.confidence >= CONVERGENCE_THRESHOLD

\* the missing facts are joined without the slice
GapHintOf_NoSlice(verdict, isAnswered) ==
    IF isAnswered THEN NoHint
    ELSE Hint(JoinFacts(verdict.missing_facts))

\* lines 929-931
GapHintOf(verdict, isAnswered) ==
    IF isAnswered THEN NoHint
    ELSE Hint(JoinFacts(Slice(verdict.missing_facts, GAP_FACTS)))

\* what the completion backend did with the evaluation prompt: the call
\* failed, the reply is no JSON, or the reply is a JSON value
ReplyKind(completion) ==
    IF completion.kind = "throw" THEN "throw"
    ELSE IF ~completion.json THEN "garbled"
    ELSE "json"

\* the result set of the first iteration is kept
FinalSearchResponse_KeepsFirst(previous, current) ==
    IF previous.set THEN previous ELSE [set |-> TRUE, value |-> current]

\* finalSearchResponse = searchResponse; (line 966)
FinalSearchResponse(previous, current) == [set |-> TRUE, value |-> current]

\* lines 923-970 from the return of evaluateAnswerWithLLM to the end of the
\* loop body, with the for statement's step; an error raised by the
\* evaluator would go to the catch block of the controller
Evaluate ==
    /\ pc = "evaluate"
    /\ \E completion \in EvalCompletions :
        LET outcome == EvaluatorOutcome(BaseQuery, spansByUrl, completion)
            verdict == outcome.verdict
            isAnswered == Converged(verdict)
            hasWeb == searchResponse.web.present
                      /\ Len(searchResponse.web.items) > 0
            reranked == IF hasWeb
                        THEN [searchResponse EXCEPT
                                !.web = List(Rerank(@.items, expandedQueries))]
                        ELSE searchResponse
            replies == Append(log.replies, ReplyKind(completion))
        IN  IF outcome.raised
            THEN /\ responses' = Append(responses, CatchResponse(GenericError))
                 /\ log' = [log EXCEPT !.replies = replies]
                 /\ pc' = "done"
                 /\ UNCHANGED <<evalResult, answered, gapHint, searchResponse,
                                finalSearchResponse, iteration>>
            ELSE /\ evalResult' = verdict
                 /\ answered' = isAnswered
                 /\ gapHint' = GapHintOf(verdict, isAnswered)
                 /\ searchResponse' = reranked
                 /\ finalSearchResponse' =
                        FinalSearchResponse(finalSearchResponse, reranked)
                 /\ log' = [log EXCEPT
                                !.evaluations = Append(@, isAnswered),
                                !.reranks = IF hasWeb THEN @ + 1 ELSE @,
                                !.replies = replies]
                 /\ responses' = responses
                 /\ IF isAnswered
                    THEN /\ iteration' = iteration
                         /\ pc' = "finish"
                    ELSE /\ iteration' = iteration + 1
                         /\ pc' = NextPc(iteration)
    /\ UNCHANGED <<config, expandedQueries, variantSearches,
                   totalResultsCount, itemsToScrape, jobs, results,
                   spansByUrl, credits_billed, billCalls, billing>>

\* the billing call made for every request that reaches the end
Finish_BillsAlways ==
    /\ pc = "finish"
    /\ LET response == IF finalSearchResponse.set
                       THEN finalSearchResponse.value
                       ELSE EmptySearchResponse
       IN  responses' = Append(responses,
                Response(200, TRUE, TRUE, response, NoScrapeIds,
                         credits_billed, "", FALSE))
    /\ billCalls' = Append(billCalls, credits_billed)
    /\ billing' = Append(billing, "pending")
    /\ pc' = "done"
    /\ UNCHANGED <<config, iteration, gapHint, locals, credits_billed,
                   finalSearchResponse, answered, log>>

(***************************************************************************)
(* searchController: after the loop                                         *)
(***************************************************************************)
\* lines 972-1053: the response object, the billing call and the answer
Finish ==
    /\ pc = "finish"
    /\ LET response == IF finalSearchResponse.set
                       THEN finalSearchResponse.value
                       ELSE EmptySearchResponse
       IN  responses' = Append(responses,
                Response(200, TRUE, TRUE, response, NoScrapeIds,
                         credits_billed, "", FALSE))
    /\ IF /\ ~req.isSearchPreview
          /\ (~shouldScrape \/ (shouldScrape /\ ~isAsyncScraping))
       THEN /\ billCalls' = Append(billCalls, credits_billed)
            /\ billing' = Append(billing, "pending")
       ELSE UNCHANGED <<billCalls, billing>>
    /\ pc' = "done"
    /\ UNCHANGED <<config, iteration, gapHint, locals, credits_billed,
                   finalSearchResponse, answered, log>>

\* lines 982-991: the promise of billTeam, which the controller does not
\* await, settles after the response went out; the handler of .catch logs a
\* rejection
BillSettle ==
    /\ pc = "done"
    /\ \E i \in 1..Len(billing) :
        /\ billing[i] = "pending"
        /\ \E outcome \in {"fulfilled", "rejected"} :
                billing' = [billing EXCEPT ![i] = outcome]
    /\ UNCHANGED <<config, pc, iteration, gapHint, locals, credits_billed,
                   finalSearchResponse, answered, responses, billCalls, log>>

Next ==
    \/ Receive
    \/ Expand
    \/ \E i \in 1..Len(variantSearches) : SearchFulfil(i)
    \/ \E i \in 1..Len(variantSearches) : SearchReject(i)
    \/ SearchJoin
    \/ \E i \in 1..Len(jobs) : JobPriority(i)
    \/ \E i \in 1..Len(jobs) : JobSubmit(i)
    \/ \E i \in 1..Len(jobs) : JobAwait(i)
    \/ \E i \in 1..Len(jobs) : JobRemove(i)
    \/ \E i \in 1..Len(jobs) : JobCostTracking(i)
    \/ DispatchJoin
    \/ Credits
    \/ Evaluate
    \/ Finish
    \/ BillSettle

\* the program: isAsyncScraping is false, and the steps of the branch of
\* lines 719-818 are no steps of it
Spec == Init /\ [][Next]_vars

\* the steps of the program and those of the asynchronous branch
AnyModeNext ==
    \/ Receive
    \/ Expand
    \/ \E i \in 1..Len(variantSearches) : SearchFulfil(i)
    \/ \E i \in 1..Len(variantSearches) : SearchReject(i)
    \/ SearchJoin
    \/ \E i \in 1..Len(jobs) : JobPriority(i)
    \/ \E i \in 1..Len(jobs) : JobSubmit(i)
    \/ \E i \in 1..Len(jobs) : JobAwait(i)
    \/ \E i \in 1..Len(jobs) : JobRemove(i)
    \/ \E i \in 1..Len(jobs) : JobCostTracking(i)
    \/ DispatchJoin
    \/ \E i \in 1..Len(jobs) : AsyncSubmit(i)
    \/ \E i \in 1..Len(jobs) : AsyncReject(i)
    \/ AsyncJoin
    \/ Credits
    \/ Evaluate
    \/ Finish
    \/ BillSettle

\* the program together with the builds of AnyModeInit: every behaviour of
\* Spec is one of AnyModeSpec
AnyModeSpec == AnyModeInit /\ [][AnyModeNext]_vars

\* the await of Promise.all over the searches (line 539) has settled with
\* every search fulfilled
SearchJoinReady ==
    /\ pc = "search"
    /\ \A i \in 1..Len(variantSearches) : variantSearches[i].st = "fulfilled"

\* the steps of the controller other than SearchJoin, Credits and Evaluate
Awaited ==
    \/ Receive
    \/ Expand
    \/ \E i \in 1..Len(variantSearches) : SearchFulfil(i)
    \/ \E i \in 1..Len(variantSearches) : SearchReject(i)
    \/ \E i \in 1..Len(jobs) : JobPriority(i)
    \/ \E i \in 1..Len(jobs) : JobSubmit(i)
    \/ \E i \in 1..Len(jobs) : JobAwait(i)
    \/ \E i \in 1..Len(jobs) : JobRemove(i)
    \/ \E i \in 1..Len(jobs) : JobCostTracking(i)
    \/ DispatchJoin
    \/ \E i \in 1..Len(jobs) : AsyncSubmit(i)
    \/ \E i \in 1..Len(jobs) : AsyncReject(i)
    \/ AsyncJoin
    \/ Finish
    \/ BillSettle

\* the requests of the fair specification: those with limit 1 in every
\* mode, the request with limit 2 without scraping or with asynchronous
\* scraping
LiveInit ==
    AnyModeInit /\ (req.limit = 1 \/ ~shouldScrape \/ isAsyncScraping)

\* every collaborator call that is pending eventually returns or fails, and
\* the controller runs on when the promise it awaits has settled: a step
\* that stays possible is eventually taken.  The fairness of SearchJoin,
\* Credits and Evaluate is stated on their guards: each of them is the only
\* step possible where its guard holds, and each of its steps changes pc.
LiveSpec ==
    /\ LiveInit
    /\ [][AnyModeNext]_vars
    /\ WF_vars(Awaited)
    /\ WF_pc(SearchJoinReady /\ pc' \in {"dispatch", "expand", "finish"})
    /\ WF_pc(pc = "credits" /\ pc' = "evaluate")
    /\ WF_pc(pc = "evaluate" /\ pc' \in {"expand", "finish", "done"})

(***************************************************************************)
(* rrfMerge called on its own                                               *)
(***************************************************************************)
\* the sequences over S of length at most n
SeqsUpTo(S, n) == UNION {[1..m -> S] : m \in 0..n}

\* a request that is not running: the helper specifications leave it alone
Idle ==
    /\ shouldScrape = TRUE
    /\ isAsyncScraping = FALSE
    /\ USE_DB_AUTHENTICATION = FALSE
    /\ req = [forceZDR |-> FALSE, valid |-> TRUE, isSearchPreview |-> FALSE,
              limit |-> 1]
    /\ pc = "idle"
    /\ iteration = 0
    /\ gapHint = NoHint
    /\ expandedQueries = <<>>
    /\ variantSearches = <<>>
    /\ searchResponse = EmptySearchResponse
    /\ totalResultsCount = 0
    /\ itemsToScrape = <<>>
    /\ jobs = <<>>
    /\ results = <<>>
    /\ spansByUrl = <<>>
    /\ evalResult = NeutralVerdict
    /\ credits_billed = 0
    /\ finalSearchResponse = [set |-> FALSE, value |-> EmptySearchResponse]
    /\ answered = FALSE
    /\ responses = <<>>
    /\ billCalls = <<>>
    /\ billing = <<>>
    /\ log = [expand |-> <<>>, searches |-> <<>>, fusions |-> 0,
              dispatches |-> 0, submitted |-> {}, credited |-> <<>>,
              extractions |-> 0, evaluations |-> <<>>, reranks |-> 0,
              replies |-> <<>>]

\* items of the small lists: the url may be absent, the position may be
\* absent; a.com has a description, b.com only a title
FusionItems ==
    {Item(u, p, <<"cars">>,
          IF u = "a.com" THEN <<"best", "cars", "ranked">> ELSE <<>>) :
        u \in {"a.com", "b.com", ""}, p \in {0, 2}}

\* every choice of at most MaxFusionLists lists of at most MaxFusionLen items
SmallInputs ==
    {[lists |-> ls, expandedQs |-> <<BaseQuery>>, k |-> RRF_K] :
        ls \in SeqsUpTo(SeqsUpTo(FusionItems, MaxFusionLen), MaxFusionLists)}

\* an item with a title and a position only: every such item has the same
\* similarity to every query
PlainItem(u, p) == Item(u, p, <<"cars">>, <<>>)

\* a.com at rank 1 in both lists, b.com at rank 1 in one list only, in front
\* of a.com or behind it, for several k
RankOneInputs ==
    {[lists |-> ls, expandedQs |-> <<BaseQuery>>, k |-> k] :
        ls \in {<<<<PlainItem("b.com", 1), PlainItem("a.com", 1)>>,
                  <<PlainItem("a.com", 1)>>>>,
                <<<<PlainItem("a.com", 1), PlainItem("b.com", 1)>>,
                  <<PlainItem("a.com", 1)>>>>,
                <<<<PlainItem("a.com", 1)>>,
                  <<PlainItem("b.com", 1), PlainItem("a.com", 1)>>>>,
                <<<<PlainItem("a.com", 1)>>,
                  <<PlainItem("a.com", 1), PlainItem("b.com", 1)>>>>},
        k \in (1..MaxK) \cup {RRF_K}}

\* a list of 5 items at the ranks 1..5: the shared urls s1.com at rank i and
\* s2.com at rank j, the other ranks taken by the list's own urls in order
ScenarioList(i, j, own) ==
    [r \in 1..5 |->
        PlainItem(IF r = i THEN "s1.com"
                  ELSE IF r = j THEN "s2.com"
                  ELSE own[r - Cardinality({q \in {i, j} : q < r})],
                  r)]

\* two lists of 5 items that share exactly s1.com and s2.com, the shared urls
\* at every pair of ranks in either list
ScenarioInputs ==
    {[lists |-> <<ScenarioList(t[1], t[2], <<"u1.com", "u2.com", "u3.com">>),
                  ScenarioList(t[3], t[4], <<"v1.com", "v2.com", "v3.com">>)>>,
      expandedQs |-> <<BaseQuery, <<"cheap", "cars">>>>, k |-> RRF_K] :
        t \in {u \in (1..5) \X (1..5) \X (1..5) \X (1..5) :
                    u[1] # u[2] /\ u[3] # u[4]}}

\* the occurrence at place idx of list v: its title tells the occurrences of
\* one url apart, and only the occurrences of the first list have a
\* description
TaggedItem(u, p, v, idx) ==
    Item(u, p, <<"cars", "list" \o ToString(v), "place" \o ToString(idx)>>,
         IF v = 1 THEN <<"best", "cars">> ELSE <<>>)

\* two lists of two items: every choice of a.com or b.com at the positions
\* 1, 2 or none for the four occurrences
RepresentativeInputs ==
    {[lists |-> [v \in 1..2 |->
                    [idx \in 1..2 |->
                        TaggedItem(c[2 * (v - 1) + idx][1],
                                   c[2 * (v - 1) + idx][2], v, idx)]],
      expandedQs |-> <<BaseQuery>>, k |-> RRF_K] :
        c \in [1..4 -> {"a.com", "b.com"} \X {0, 1, 2}]}

FusionInputs ==
    SmallInputs \cup RankOneInputs \cup ScenarioInputs
    \cup RepresentativeInputs

FusionInit ==
    /\ Idle
    /\ \E in \in FusionInputs :
        call = [fn |-> "rrfMerge", args |-> in, returned |-> FALSE,
                ret |-> <<>>]

\* the call returns
FusionReturn ==
    /\ call.fn = "rrfMerge"
    /\ ~call.returned
    /\ call' = [call EXCEPT
                    !.returned = TRUE,
                    !.ret = rrfMerge(call.args.lists, call.args.expandedQs,
                                     call.args.k)]
    /\ UNCHANGED request

FusionNext == FusionReturn

FusionSpec == FusionInit /\ [][FusionNext]_vars

(***************************************************************************)
(* expandQueriesPlanner called on its own                                   *)
(***************************************************************************)
\* strings a reply can list: the base query in another case and spacing, a
\* new query, two spellings of one more, and the empty string
PlannerEntries ==
    {<<"best", "", "cars">>, <<"cheap", "cars">>, <<"Cars">>, <<"cars">>,
     <<>>}

\* the replies: a failed call, and every text of at most MaxEntries entries
PlannerCompletions ==
    {[kind |-> "throw"]}
    \cup {[kind |-> "text",
           text |-> [fence |-> fence, form |-> form, entries |-> entries]] :
            fence \in {"none", "json", "bare"},
            form \in {"array", "lines"},
            entries \in SeqsUpTo(PlannerEntries, MaxEntries)}
    \cup {[kind |-> "text",
           text |-> [fence |-> fence, form |-> "number", entries |-> <<>>]] :
            fence \in {"none", "json", "bare"}}

\* the base query as it is, and with white space in front and inside
PlannerInputs ==
    {[baseQuery |-> baseQuery, gapHint |-> hint, maxVariants |-> maxVariants,
      completion |-> completion] :
        baseQuery \in {BaseQuery, <<"", "Best", "", "cars">>},
        hint \in {NoHint, Hint(<<"fact1">>)},
        maxVariants \in {1, 2, MAX_VARIANTS},
        completion \in PlannerCompletions}

PlannerInit ==
    /\ Idle
    /\ \E in \in PlannerInputs :
        call = [fn |-> "expandQueriesPlanner", args |-> in,
                returned |-> FALSE, ret |-> <<>>]

\* the call returns, or raises
PlannerReturn ==
    /\ call.fn = "expandQueriesPlanner"
    /\ ~call.returned
    /\ call' = [call EXCEPT
                    !.returned = TRUE,
                    !.ret = PlannerOutcome(call.args.baseQuery,
                                           call.args.gapHint,
                                           call.args.maxVariants,
                                           call.args.completion)]
    /\ UNCHANGED request

PlannerNext == PlannerReturn

PlannerSpec == PlannerInit /\ [][PlannerNext]_vars

(***************************************************************************)
(* evaluateAnswerWithLLM called on its own                                  *)
(***************************************************************************)
\* the replies: a failed call, a reply that is no JSON, and JSON values with
\* a confidence below 0, inside 0..1, above 1 (hundredths) or not a number,
\* and with or without a list of missing facts
EvaluatorCompletions ==
    {[kind |-> kind, json |-> json, answered |-> isAnswered,
      isNumber |-> isNumber, confidence |-> c, isArray |-> isArray,
      missing_facts |-> facts] :
        kind \in {"throw", "text"}, json \in BOOLEAN, isAnswered \in BOOLEAN,
        isNumber \in BOOLEAN,
        c \in {0 - 50, 0, CONVERGENCE_THRESHOLD - 1, CONVERGENCE_THRESHOLD,
               100, 150},
        isArray \in BOOLEAN, facts \in {<<>>, Facts(2)}}

EvaluatorInputs ==
    {[query |-> BaseQuery, spansByUrl |-> spans, completion |-> completion] :
        spans \in {<<>>, <<[url |-> "a.com",
                            spans |-> <<<<"best", "cars", "here">>>>]>>},
        completion \in EvaluatorCompletions}

EvaluatorInit ==
    /\ Idle
    /\ \E in \in EvaluatorInputs :
        call = [fn |-> "evaluateAnswerWithLLM", args |-> in,
                returned |-> FALSE, ret |-> <<>>]

\* the call returns, or raises
EvaluatorReturn ==
    /\ call.fn = "evaluateAnswerWithLLM"
    /\ ~call.returned
    /\ call' = [call EXCEPT
                    !.returned = TRUE,
                    !.ret = EvaluatorOutcome(call.args.query,
                                             call.args.spansByUrl,
                                             call.args.completion)]
    /\ UNCHANGED request

EvaluatorNext == EvaluatorReturn

EvaluatorSpec == EvaluatorInit /\ [][EvaluatorNext]_vars

(***************************************************************************)
(* extractTopSpansFromMarkdown called on its own                            *)
(***************************************************************************)
\* paragraphs of a page: without a query token, with both, with one inside a
\* longer word, a list item with both, and white space only
ExtractorParagraphs ==
    {<<"intro", "here">>, <<"Best", "cars", "", "here">>,
     <<"cheap", "supercars">>, <<"-", "best", "cars">>, <<"">>}

\* pages of at most MaxParagraphs paragraphs; maxSpans is 3 at the one call
\* site (line 908)
ExtractorInputs ==
    {[markdown |-> markdown, query |-> BaseQuery, maxSpans |-> maxSpans] :
        markdown \in SeqsUpTo(ExtractorParagraphs, MaxParagraphs),
        maxSpans \in {0, 1, 3}}

ExtractorInit ==
    /\ Idle
    /\ \E in \in ExtractorInputs :
        call = [fn |-> "extractTopSpansFromMarkdown", args |-> in,
                returned |-> FALSE, ret |-> <<>>]

ExtractorReturn ==
    /\ call.fn = "extractTopSpansFromMarkdown"
    /\ ~call.returned
    /\ call' = [call EXCEPT
                    !.returned = TRUE,
                    !.ret = extractTopSpansFromMarkdown(call.args.markdown,
                                                        call.args.query,
                                                        call.args.maxSpans)]
    /\ UNCHANGED request

ExtractorNext == ExtractorReturn

ExtractorSpec == ExtractorInit /\ [][ExtractorNext]_vars

(***************************************************************************)
(* Claims                                                                   *)
(***************************************************************************)
Synchronous == shouldScrape /\ ~isAsyncScraping

\* the one response of a request that has ended with a success
Succeeded ==
    pc = "done" /\ Len(responses) = 1 /\ responses[1].status = 200

\* C1: the k-th iteration that starts has index k - 1 (so the first has
\* index 0 and the index grows by exactly one from one iteration to the
\* next), the index never changes otherwise than by +1, and no more than
\* MAX_ITERATIONS iterations start, whatever the collaborators return.
C1_IterationIndexBounded ==
    [][/\ iteration' = iteration \/ iteration' = iteration + 1
       /\ Len(log'.expand) > Len(log.expand) =>
            /\ Len(log'.expand) = Len(log.expand) + 1
            /\ iteration = Len(log.expand)
            /\ iteration' = iteration
            /\ Len(log'.expand) <= MAX_ITERATIONS]_vars

\* C1 witness: the second iteration has started, with index 1
C1_Witness ==
    pc = "search" /\ Len(log.expand) = MAX_ITERATIONS /\ iteration = 1

\* C2: in synchronous mode, at the end of an iteration the loop is left by
\* the break exactly when the verdict has answered = true and
\* confidence >= 0.6, and goes on to the next iteration when it has not and
\* the budget allows; after a converged verdict no expansion, search,
\* dispatch or evaluation is made any more; a request answered after only
\* converged verdicts ran exactly 1 iteration, one answered after only
\* non-converged verdicts ran exactly MAX_ITERATIONS.
C2_StopsExactlyOnConvergence ==
    [][/\ (Synchronous /\ pc = "evaluate" /\ pc' # "evaluate") =>
            LET converged == /\ evalResult'.answered
                             /\ evalResult'.confidence >= CONVERGENCE_THRESHOLD
            IN  /\ converged => (pc' = "finish" /\ iteration' = iteration)
                /\ (~converged /\ iteration + 1 < MAX_ITERATIONS) =>
                        (pc' = "expand" /\ iteration' = iteration + 1)
                /\ (~converged /\ iteration + 1 >= MAX_ITERATIONS) =>
                        (pc' = "finish" /\ iteration' = iteration + 1)
                /\ log'.evaluations = Append(log.evaluations, converged)
       /\ (Synchronous /\ answered) => log' = log
       /\ (Synchronous /\ Succeeded') =>
            /\ (\A i \in 1..Len(log'.evaluations) : log'.evaluations[i])
                    => Len(log'.expand) = 1
            /\ (\A i \in 1..Len(log'.evaluations) : ~log'.evaluations[i])
                    => Len(log'.expand) = MAX_ITERATIONS]_vars

\* C2 witness: a request that ended after one iteration on a converged verdict
C2_Witness ==
    Synchronous /\ Succeeded /\ log.evaluations = <<TRUE>>
    /\ Len(log.expand) = 1

\* the URLs the searches of the running iteration found in a category
FoundUrls(c) ==
    UNION {{variantSearches[i].value[c][n].url :
                n \in 1..Len(variantSearches[i].value[c])} :
           i \in 1..Len(variantSearches)}

\* C4: the result set of a successful response is the result set of the
\* last executed iteration: it is there whatever the mode, and in each
\* category it holds only pages found by the searches of that iteration, as
\* many of them as the limit lets through.
C4_ResponseIsLastIterationResult ==
    Succeeded =>
        /\ responses[1].hasData
        /\ responses[1].data = searchResponse
        /\ \A c \in Categories :
            LET sent == responses[1].data[c].items
            IN  /\ \A n \in 1..Len(sent) : sent[n].url \in FoundUrls(c)
                /\ Len(sent) = Min(req.limit, Cardinality(FoundUrls(c)))

\* C4 witness: the response follows a second iteration, and a page fetched
\* for the first iteration's result set is not in the result set sent
C4_Witness ==
    /\ Succeeded
    /\ Len(log.expand) = 2
    /\ responses[1].data.web.items # <<>>
    /\ \E s \in log.submitted :
        /\ s.type = "web"
        /\ \A n \in 1..Len(responses[1].data.web.items) :
                responses[1].data.web.items[n].url # s.url

\* a hint is the first GAP_FACTS facts, in order, joined with "; " (the
\* facts of the model are single words)
IsJoinedPrefix(text, facts) ==
    LET m == Min(GAP_FACTS, Len(facts)) IN
    /\ Len(text) = m
    /\ \A i \in 1..m :
        text[i] = IF i < m THEN facts[i][1] \o ";" ELSE facts[i][1]

\* C5: the first expansion gets no gap hint; the expansion that follows an
\* iteration with a non-converged verdict gets the first 5 missing facts of
\* that verdict, in order, joined into one string; a converged verdict
\* clears the gap hint.
C5_GapHint ==
    [][/\ Len(log'.expand) > Len(log.expand) =>
            LET given == log'.expand[Len(log'.expand)] IN
            /\ Len(log.expand) = 0 => given = NoHint
            /\ (Len(log.expand) > 0
                /\ Len(log.evaluations) = Len(log.expand)) =>
                    /\ given.defined
                    /\ IsJoinedPrefix(given.text, evalResult.missing_facts)
       /\ (pc = "evaluate" /\ pc' # "evaluate") =>
            /\ (evalResult'.answered
                /\ evalResult'.confidence >= CONVERGENCE_THRESHOLD)
                    => gapHint' = NoHint
            /\ ~(evalResult'.answered
                 /\ evalResult'.confidence >= CONVERGENCE_THRESHOLD)
                    => /\ gapHint'.defined
                       /\ IsJoinedPrefix(gapHint'.text,
                                         evalResult'.missing_facts)]_vars

\* C5 witness: the second expansion was given a hint of exactly 5 facts, the
\* verdict having had more
C5_Witness ==
    /\ Len(log.expand) = 2
    /\ log.expand[2].defined
    /\ Len(log.expand[2].text) = GAP_FACTS

\* C6 (as claimed): in synchronous mode the dispatch yields exactly one
\* result per dispatched item; exactly the items whose scrape failed (a
\* timeout included) carry statusCode 500 with the error's message, and these
\* have empty cost data; every other item has its scraped document; the
\* request goes on without a response having been sent.
C6_DispatchResilience ==
    (Synchronous /\ pc \in {"credits", "evaluate"}) =>
        /\ Len(results) = Len(itemsToScrape)
        /\ responses = <<>>
        /\ \A i \in 1..Len(results) :
            LET failed == jobs[i].error # NoError
                body == results[i].document.body
            IN  /\ failed <=> body.statusCode = ERROR_STATUS
                /\ failed => /\ body.error = jobs[i].error.message
                             /\ results[i].costTracking = EmptyCostTracking
                /\ ~failed => body = ScrapedBody(itemsToScrape[i].scrapeInput.url)

\* C6 (amended): in synchronous mode the dispatch yields exactly one result
\* per dispatched item; exactly the items whose scrape failed (a timeout
\* included) carry statusCode 500, with the error's message when an Error
\* was thrown and with "[object Object]" when the error object of the
\* cost-tracking query was thrown, and these have empty cost data; every
\* other item has its scraped document; the request goes on without a
\* response having been sent.
C6_DispatchResilienceOfThrownValues ==
    (Synchronous /\ pc \in {"credits", "evaluate"}) =>
        /\ Len(results) = Len(itemsToScrape)
        /\ responses = <<>>
        /\ \A i \in 1..Len(results) :
            LET thrown == jobs[i].error
                failed == thrown # NoError
                body == results[i].document.body
            IN  /\ failed <=> body.statusCode = ERROR_STATUS
                /\ failed =>
                    /\ thrown \in {GenericError, TimeoutError,
                                   costTrackingError}
                    /\ thrown \in {GenericError, TimeoutError} =>
                            body.error = thrown.message
                    /\ thrown = costTrackingError =>
                            body.error = "[object Object]"
                    /\ results[i].costTracking = EmptyCostTracking
                /\ ~failed => body = ScrapedBody(itemsToScrape[i].scrapeInput.url)

\* C6 witness: of two dispatched scrapes one failed on the error object of
\* the cost-tracking query and the other completed
C6_Witness ==
    /\ Synchronous /\ pc = "credits" /\ Len(results) = 2
    /\ \E i, j \in 1..2 :
        /\ jobs[i].error = costTrackingError
        /\ results[i].document.body.error = "[object Object]"
        /\ jobs[j].error = NoError /\ jobs[j].st = "done"

\* C7 (as claimed): one search call per query variant, and the controller
\* is past the search step only when every variant call has settled, a
\* rejection included.
C7_SearchJoinWaitsForAll ==
    /\ pc = "search" => Len(variantSearches) = Len(expandedQueries)
    /\ pc # "search" =>
        \A i \in 1..Len(variantSearches) : variantSearches[i].st # "pending"

\* C8: when a variant search of an iteration is rejected the request has
\* failed: the one response is a failure without result data, that
\* iteration has neither fused nor dispatched anything, and nothing is
\* billed, also when other variants were fulfilled or an earlier iteration
\* has produced a result set.
C8_SearchRejectionIsFatal ==
    (\E i \in 1..Len(variantSearches) : variantSearches[i].st = "rejected") =>
        /\ pc = "done"
        /\ Len(responses) = 1
        /\ ~responses[1].success
        /\ responses[1].status \in {500, 408}
        /\ ~responses[1].hasData
        /\ responses[1].data = EmptySearchResponse
        /\ billCalls = <<>>
        /\ log.fusions = Len(log.expand) - 1
        /\ log.dispatches < Len(log.expand)
        /\ jobs = <<>>

\* C8 witness: a rejection in the second iteration, beside a fulfilled
\* variant, after the first iteration has produced its result set
C8_Witness ==
    /\ \E i, j \in 1..Len(variantSearches) :
        /\ variantSearches[i].st = "rejected"
        /\ variantSearches[j].st = "fulfilled"
    /\ Len(log.expand) = 2
    /\ finalSearchResponse.set

\* C9: in synchronous mode every scrape of an iteration is started with the
\* dispatch and none has to wait for another (an unsettled scrape can always
\* take its next step); extraction and evaluation begin only when every
\* dispatched item has settled as a document or as an in-band error item;
\* the result of an item is that of its own scrape.
C9_FanOutFanIn ==
    /\ (Synchronous /\ pc = "dispatch") =>
        /\ Len(jobs) = Len(itemsToScrape)
        /\ spansByUrl = <<>>
        /\ Len(log.evaluations) < Len(log.expand)
        /\ \A i \in 1..Len(jobs) :
            jobs[i].st \in {"started", "waiting", "awaited"} =>
                ENABLED (JobPriority(i) \/ JobSubmit(i) \/ JobAwait(i)
                         \/ JobRemove(i) \/ JobCostTracking(i))
    /\ (Synchronous /\ pc \in {"credits", "evaluate"}) =>
        /\ \A i \in 1..Len(jobs) : jobs[i].st \in {"done", "failed"}
        /\ \A i \in 1..Len(results) :
            /\ results[i].document.url = itemsToScrape[i].scrapeInput.url
            /\ results[i].document.body = jobs[i].body
            /\ jobs[i].st = "done" =>
                results[i].document.body.kind = "scraped"
            /\ jobs[i].st = "failed" =>
                results[i].document.body.kind = "placeholder"

\* C9 witness: two scrapes in flight at once, neither settled
C9_Witness ==
    /\ Synchronous /\ pc = "dispatch" /\ Len(jobs) = 2
    /\ jobs[1].st = "waiting" /\ jobs[2].st = "waiting"

\* C10: no fetch job is submitted for a URL of the team blocklist, in any
\* iteration and category.
C10_BlockedNeverSubmitted ==
    /\ \A s \in log.submitted : s.url \notin BlockedUrls
    /\ \A i \in 1..Len(itemsToScrape) :
        itemsToScrape[i].scrapeInput.url \notin BlockedUrls
    /\ \A i \in 1..Len(jobs) :
        itemsToScrape[i].scrapeInput.url \notin BlockedUrls

\* C10 witness: jobs were submitted in an iteration whose limited web list
\* holds a blocked URL
C10_Witness ==
    /\ pc = "dispatch"
    /\ \E i \in 1..Len(searchResponse.web.items) :
        searchResponse.web.items[i].url \in BlockedUrls
    /\ \E i \in 1..Len(searchResponse.news.items) :
        searchResponse.news.items[i].url \in BlockedUrls
    /\ \E i \in 1..Len(jobs) : jobs[i].st = "waiting"

\* the items of a result set, over its three categories
ItemsOf(r) == r.web.items \o r.news.items \o r.images.items

\* C11 (as claimed): the result set of a successful response holds no item
\* whose URL is matched by the team blocklist.
C11_ResponseHasNoBlockedUrl ==
    Succeeded =>
        \A i \in 1..Len(ItemsOf(responses[1].data)) :
            ItemsOf(responses[1].data)[i].url \notin BlockedUrls

\* the number of items of a result set whose URL is not on the blocklist
UnblockedCount(r) ==
    Len(SelectSeq(ItemsOf(r), LAMBDA it : it.url \notin BlockedUrls))

\* C12 (as claimed): the credit total reported and billed holds nothing for
\* a blocked URL: it is the sum of the credits of the documents that were
\* dispatched (none of them blocked), or a count of the result set in which
\* a blocked item counts 0.
C12_BlockedContributesNoCredit ==
    (Synchronous /\ Succeeded) =>
        /\ responses[1].creditsUsed
            \in {SumSeq([i \in 1..Len(results) |->
                            CreditsFor(results[i].document,
                                       results[i].costTracking)]),
                 UnblockedCount(responses[1].data)}
        /\ \A i \in 1..Len(billCalls) : billCalls[i] = responses[1].creditsUsed

\* the urls that occur in the input lists of the call (an item without url
\* has none)
InputUrls ==
    UNION {{call.args.lists[v][i].url : i \in 1..Len(call.args.lists[v])} :
                v \in 1..Len(call.args.lists)}
    \ {""}

\* C13: rrfMerge returns exactly one item per distinct URL of its input
\* lists: every such URL is in the output, none twice, and the output has as
\* many items as there are distinct URLs.
C13_FusionOnePerUrl ==
    (call.fn = "rrfMerge" /\ call.returned) =>
        /\ {call.ret[i].url : i \in 1..Len(call.ret)} = InputUrls
        /\ \A i, j \in 1..Len(call.ret) :
            call.ret[i].url = call.ret[j].url => i = j
        /\ Len(call.ret) = Cardinality(InputUrls)

\* C13 witness: a URL that occurs in both lists, twice in one of them, and
\* another URL beside an item without URL
C13_Witness ==
    /\ call.fn = "rrfMerge" /\ call.returned
    /\ Len(call.args.lists) = 2
    /\ \E i, j \in 1..Len(call.args.lists[1]) :
        /\ i # j
        /\ call.args.lists[1][i].url = "a.com"
        /\ call.args.lists[1][j].url = "a.com"
    /\ \E i, j \in 1..Len(call.args.lists[2]) :
        /\ call.args.lists[2][i].url = "a.com"
        /\ call.args.lists[2][j].url = ""
    /\ Len(call.ret) = 1

\* the place of a url in the output of the call, 0 when it is not there
PlaceOf(url) ==
    IF \E i \in 1..Len(call.ret) : call.ret[i].url = url
    THEN CHOOSE i \in 1..Len(call.ret) : call.ret[i].url = url
    ELSE 0

\* C14: with equal similarity, for every k > 0 tried a URL at rank 1 in two
\* lists is placed before a URL at rank 1 in one list only; and for two lists
\* of 5 items at the ranks 1..5 that share exactly 2 URLs the output has 8
\* distinct URLs and the two shared URLs are placed before every other URL,
\* whatever ranks they have in the two lists.
C14_SharedUrlsRankFirst ==
    (call.fn = "rrfMerge" /\ call.returned) =>
        /\ call.args \in RankOneInputs =>
            /\ call.args.k > 0
            /\ PlaceOf("a.com") > 0
            /\ PlaceOf("a.com") < PlaceOf("b.com")
        /\ call.args \in ScenarioInputs =>
            /\ Len(call.ret) = 8
            /\ Cardinality({call.ret[i].url : i \in 1..Len(call.ret)}) = 8
            /\ {call.ret[1].url, call.ret[2].url} = {"s1.com", "s2.com"}

\* C14 witness: the shared URLs at the two last ranks of both lists
C14_Witness ==
    /\ call.fn = "rrfMerge" /\ call.returned
    /\ call.args \in ScenarioInputs
    /\ call.args.lists[1][5].url = "s1.com"
    /\ call.args.lists[1][4].url = "s2.com"
    /\ call.args.lists[2][4].url = "s1.com"
    /\ call.args.lists[2][5].url = "s2.com"
    /\ PlaceOf("s2.com") = 1
    /\ PlaceOf("s1.com") = 2

\* the score of the output's i-th item, from the inputs of the call: the sum
\* of 1 / (k + rank) over the visits of its url plus beta times the
\* similarity of its snippet to the queries, in units of 1 / scale
PlaceScore(i) ==
    LET occ == Occurrences(call.args.lists, 1)
        scale == ScoreScale(occ, call.args.expandedQs, call.args.k)
        visits == SelectSeq(occ, LAMBDA o : o.item.url = call.ret[i].url)
    IN  SumSeq([v \in 1..Len(visits) |->
                    scale \div (call.args.k + visits[v].rank)])
        + SumSeq([j \in 1..Len(call.args.expandedQs) |->
                    LET f == textSim(SnippetText(call.ret[i]),
                                     call.args.expandedQs[j])
                    IN  (scale \div (BetaDen * f[2])) * BetaNum * f[1]])

\* the first visit of the output's i-th url in the walk over the lists
FirstVisit(i) ==
    LET occ == Occurrences(call.args.lists, 1)
    IN  CHOOSE v \in 1..Len(occ) :
            /\ occ[v].item.url = call.ret[i].url
            /\ \A w \in 1..(v - 1) : occ[w].item.url # call.ret[i].url

\* C15: the output order of rrfMerge is fixed by its inputs: the items are
\* in descending order of score, and items of equal score are in the order
\* in which their URLs are first met in the walk over the lists.
C15_FusionOrderIsFixed ==
    (call.fn = "rrfMerge" /\ call.returned) =>
        \A i, j \in 1..Len(call.ret) :
            i < j =>
                \/ PlaceScore(i) > PlaceScore(j)
                \/ /\ PlaceScore(i) = PlaceScore(j)
                   /\ FirstVisit(i) < FirstVisit(j)

\* C15 witness: an output in which two neighbours have the same score
C15_Witness ==
    /\ call.fn = "rrfMerge" /\ call.returned
    /\ \E i \in 1..(Len(call.ret) - 1) :
        /\ PlaceScore(i) = PlaceScore(i + 1)
        /\ call.ret[i].url = "u1.com"
        /\ call.ret[i + 1].url = "v1.com"

\* the position fields of a list are 1, 2, ..., N in list order
DensePositions(items) == \A i \in 1..Len(items) : items[i].position = i

\* C16: the position fields are exactly 1..N in list order in every category
\* list produced by the fusion of an iteration (looked at when the fusion
\* has just been made), in every category list after
\* the limit, in the web list after the re-ranking, and so in the result set
\* that is answered.
C16_PositionsAreDense ==
    /\ \A c \in Categories :
        /\ DensePositions(searchResponse[c].items)
        /\ DensePositions(finalSearchResponse.value[c].items)
        /\ \A n \in 1..Len(responses) :
            DensePositions(responses[n].data[c].items)
    /\ (/\ variantSearches # <<>>
        /\ \/ pc = "dispatch" /\ \A i \in 1..Len(jobs) : jobs[i].st = "started"
           \/ ~shouldScrape /\ pc \in {"expand", "finish"}) =>
            LET fused == Fuse([i \in 1..Len(variantSearches) |->
                                    variantSearches[i].value],
                              expandedQueries)
            IN  \A c \in Categories :
                    /\ fused[c].present
                    /\ DensePositions(fused[c].items)

\* C16 witness: after the re-ranking, a web list cut by the limit from three
\* fused urls and a news list whose items came without a position
C16_Witness ==
    /\ pc = "finish"
    /\ log.evaluations # <<>>
    /\ Len(searchResponse.web.items) = 2
    /\ Len(searchResponse.news.items) = 2
    /\ Len(Fuse([i \in 1..Len(variantSearches) |-> variantSearches[i].value],
                expandedQueries).web.items) = 3

PlannerReturned == call.fn = "expandQueriesPlanner" /\ call.returned

\* C17 (as claimed): the list returned by a query expansion called with
\* max variant count M has at most M elements, the original query counted.
C17_AtMostMaxVariants ==
    (PlannerReturned /\ ~call.ret.raised) =>
        Len(call.ret.value) <= call.args.maxVariants

\* C18 (as claimed): the first element of the returned list is the trimmed,
\* white-space-collapsed original query, and no two elements are equal when
\* compared without regard to case, also when the completion call fails.
C18_NormalizedOriginalFirstAndUnique ==
    (PlannerReturned /\ ~call.ret.raised) =>
        /\ Len(call.ret.value) >= 1
        /\ call.ret.value[1]
            = SelectSeq(call.args.baseQuery, LAMBDA w : w # "")
        /\ \A i, j \in 1..Len(call.ret.value) :
            LowerStr(call.ret.value[i]) = LowerStr(call.ret.value[j])
                => i = j

\* the original query but for its white space
IsOriginalOnly(list, baseQuery) ==
    /\ Len(list) = 1
    /\ SelectSeq(list[1], LAMBDA w : w # "")
        = SelectSeq(baseQuery, LAMBDA w : w # "")

\* C19: query expansion never raises; the raw text is parsed as a JSON list
\* first, the fence-stripped text only when that failed, the split only
\* when that failed too; and when the call failed or no usable string came
\* out, the result is the list of the original query alone.
C19_PlannerNeverRaises ==
    PlannerReturned =>
        LET text == call.args.completion.text
            failed == call.args.completion.kind = "throw"
            rawParses == text.fence = "none" /\ text.form = "array"
            cleanedParses == text.form = "array"
            usable == {i \in 1..Len(text.entries) :
                          \E w \in 1..Len(text.entries[i]) :
                              text.entries[i][w] # ""}
        IN  /\ ~call.ret.raised
            /\ failed =>
                /\ call.ret.stages = <<>>
                /\ IsOriginalOnly(call.ret.value, call.args.baseQuery)
            /\ ~failed =>
                /\ rawParses <=> call.ret.stages = <<"raw">>
                /\ (~rawParses /\ cleanedParses)
                        <=> call.ret.stages = <<"raw", "cleaned">>
                /\ (~rawParses /\ ~cleanedParses)
                        <=> call.ret.stages = <<"raw", "cleaned", "split">>
                /\ usable = {} =>
                        IsOriginalOnly(call.ret.value, call.args.baseQuery)

\* C19 witness: a fenced reply of bulleted lines went through the three
\* stages and gave a variant
C19_Witness ==
    /\ PlannerReturned
    /\ call.args.completion.kind = "text"
    /\ call.args.completion.text.fence = "json"
    /\ call.args.completion.text.form = "lines"
    /\ call.ret.stages = <<"raw", "cleaned", "split">>
    /\ Len(call.ret.value) = 2

\* C20: the answer evaluator never raises; when the completion call fails or
\* its reply cannot be parsed, the verdict is {answered: false,
\* confidence: 0, missing_facts: []}, the controller takes the iteration as
\* not converged, answers nothing, and goes on to the next iteration when
\* the iteration budget allows, else to the end of the loop.
C20_EvaluatorFailureIsNeutral ==
    [][(pc = "evaluate" /\ pc' # "evaluate"
        /\ log'.replies[Len(log'.replies)] \in {"throw", "garbled"}) =>
            /\ evalResult' = [answered |-> FALSE, confidence |-> 0,
                              missing_facts |-> <<>>]
            /\ ~answered'
            /\ responses' = responses
            /\ log'.evaluations = Append(log.evaluations, FALSE)
            /\ iteration' = iteration + 1
            /\ iteration + 1 < MAX_ITERATIONS => pc' = "expand"
            /\ iteration + 1 >= MAX_ITERATIONS => pc' = "finish"]_vars

\* C20 witness: a second iteration has started after an evaluation whose
\* completion call failed
C20_Witness ==
    /\ pc = "search"
    /\ Len(log.expand) = 2
    /\ log.replies = <<"throw">>
    /\ log.evaluations = <<FALSE>>

\* C21 (as claimed): every verdict the evaluator returns has a confidence in
\* the closed range [0, 1] (0..100 hundredths), whatever the reply holds.
C21_ConfidenceInUnitRange ==
    (call.fn = "evaluateAnswerWithLLM" /\ call.returned
     /\ ~call.ret.raised) =>
        /\ call.ret.verdict.confidence >= 0
        /\ call.ret.verdict.confidence <= 100

\* C22 (as claimed): the re-ranking of the web category runs exactly once in
\* a request, after the iteration loop has ended: while the loop is still
\* running no re-ranking has happened, and a request that is answered has
\* re-ranked once.
C22_RerankOnceAfterLoop ==
    Synchronous =>
        /\ pc \notin {"finish", "done"} => log.reranks = 0
        /\ Succeeded => log.reranks = 1

\* the text the re-ranking compares with the queries: the description, or
\* the title when the description is empty or blank
RerankText(item) ==
    IF \E i \in 1..Len(item.description) : item.description[i] # ""
    THEN item.description
    ELSE item.title

\* the summed similarity of an item to the queries qs, in units of 1/scale
RerankScore(item, qs, scale) ==
    SumSeq([j \in 1..Len(qs) |->
        (scale \div textSim(RerankText(item), qs[j])[2])
            * textSim(RerankText(item), qs[j])[1]])

\* after is before in the order pi: descending score, equal scores in their
\* prior order, positions renumbered
IsRerankOf(after, before, qs) ==
    LET n == Len(before)
        scale == LCMSet({textSim(RerankText(before[i]), qs[j])[2] :
                            i \in 1..n, j \in 1..Len(qs)})
        score(i) == RerankScore(before[i], qs, scale)
    IN  /\ Len(after) = n
        /\ \E pi \in [1..n -> 1..n] :
            /\ \A i, j \in 1..n : i # j => pi[i] # pi[j]
            /\ \A i \in 1..n : after[i] = [before[pi[i]] EXCEPT !.position = i]
            /\ \A i \in 1..(n - 1) :
                \/ score(pi[i]) > score(pi[i + 1])
                \/ score(pi[i]) = score(pi[i + 1]) /\ pi[i] < pi[i + 1]

\* C23: a re-ranking changes only the web list: the web list keeps its
\* items, ordered by descending summed similarity of the description (the
\* title when the description is blank) to the expanded queries of the
\* iteration, items of equal score in their prior order; the news and image
\* lists stay as they were.
C23_RerankOnlyWeb ==
    [][log'.reranks # log.reranks =>
        /\ searchResponse'.news = searchResponse.news
        /\ searchResponse'.images = searchResponse.images
        /\ searchResponse'.web.present = searchResponse.web.present
        /\ IsRerankOf(searchResponse'.web.items, searchResponse.web.items,
                      expandedQueries)
        /\ finalSearchResponse'.value = searchResponse']_vars

\* C23 witness: a re-ranking has swapped the two web items that the fusion
\* and the limit had left, beside a news list
C23_Witness ==
    /\ pc = "finish"
    /\ log.reranks > 0
    /\ searchResponse.news.items # <<>>
    /\ LET limited == ApplyLimit(Label(Fuse([i \in 1..Len(variantSearches) |->
                                                variantSearches[i].value],
                                            expandedQueries)), req.limit)
       IN  /\ Len(limited.web.items) = 2
           /\ limited.web.items[1].url # limited.web.items[2].url
           /\ searchResponse.web.items[1].url = limited.web.items[2].url
           /\ searchResponse.web.items[2].url = limited.web.items[1].url

\* the fused and labelled lists of the running iteration, before the limit
FusedLists ==
    Label(Fuse([i \in 1..Len(variantSearches) |-> variantSearches[i].value],
               expandedQueries))

\* the category list a job of this type comes from
CategoryOfType(type) == IF type = "image" THEN "images" ELSE type

\* list is the first min(limit, N) items of full, in the same order
IsLimitedPrefix(list, full, limit) ==
    /\ Len(list) = IF limit < Len(full) THEN limit ELSE Len(full)
    /\ \A i \in 1..Len(list) : list[i] = full[i]

\* C24: the step that limits leaves in each category the first
\* min(limit, N) items of that category's fused list, in the same order, and
\* every fetch job that is submitted is for an item among the first limit
\* items of the fused list of its category.
C24_LimitIsPrefixAndBoundsJobs ==
    [][/\ (pc = "search" /\ pc' \in {"dispatch", "expand", "finish"}) =>
            LET fused == FusedLists IN
            \A c \in Categories :
                IsLimitedPrefix(searchResponse'[c].items, fused[c].items,
                                req.limit)
       /\ log'.submitted # log.submitted =>
            LET fused == FusedLists IN
            \A s \in log'.submitted \ log.submitted :
                \E i \in 1..req.limit :
                    /\ i <= Len(fused[CategoryOfType(s.type)].items)
                    /\ fused[CategoryOfType(s.type)].items[i].url = s.url]_vars

\* C24 witness: the fusion gave three web items, the limit is 1, the second
\* fused item has a url that is not blocked, and the jobs of the items that
\* were kept have been submitted
C24_Witness ==
    /\ pc = "dispatch"
    /\ req.limit = 1
    /\ jobs # <<>>
    /\ \A i \in 1..Len(jobs) : jobs[i].st # "started"
    /\ Len(searchResponse.web.items) = 1
    /\ Len(FusedLists.web.items) = 3
    /\ FusedLists.web.items[2].url # ""
    /\ ~isUrlBlocked(FusedLists.web.items[2].url)

\* the jobs of the running iteration whose fetch produced a document
ProducedJobs == {i \in 1..Len(jobs) : jobs[i].st = "done"}

\* C25 (as claimed): when the credits of an iteration have been worked out,
\* the credit calculation has been called once for each item whose fetch
\* produced a document and for no item whose fetch failed, and the credit
\* total is the sum of the values of those calls.
C25_CreditsOnlyForProduced ==
    (Synchronous /\ pc = "evaluate") =>
        /\ Len(log.credited) = Cardinality(ProducedJobs)
        /\ \A i \in 1..Len(log.credited) : log.credited[i].job = "done"
        /\ credits_billed =
            SumSeq([i \in 1..Len(results) |->
                        IF i \in ProducedJobs
                        THEN CreditsFor(results[i].document,
                                        results[i].costTracking)
                        ELSE 0])

\* no expansion, search, fetch job, evaluation or billing call has been made
NoWorkDone ==
    /\ log.expand = <<>>
    /\ log.searches = <<>>
    /\ log.fusions = 0
    /\ log.dispatches = 0
    /\ log.submitted = {}
    /\ log.replies = <<>>
    /\ billCalls = <<>>

\* the one answer of the request is the 400 rejection with the schema
\* error's field-level details
RejectedWithDetails ==
    /\ Len(responses) = 1
    /\ responses[1].status = 400
    /\ ~responses[1].success
    /\ responses[1].details

\* C26 (as claimed): a request whose body fails the schema is answered 400
\* with field-level details, and no work is done for it.
C26_InvalidBodyRejectedWithDetails ==
    ~req.valid =>
        /\ NoWorkDone
        /\ pc = "done" => RejectedWithDetails

\* C26 (amended): a request that reaches the schema parse (its team is not
\* under forced zero data retention) and whose body fails the schema is
\* answered 400 "Invalid request body" with field-level details, and no work
\* is done for it; a request of a team under forced zero data retention is
\* answered 400 without details before its body is parsed, and no work is
\* done for it either.
C26_ParseFailureRejectedWithDetails ==
    /\ (~req.forceZDR /\ ~req.valid) =>
            /\ NoWorkDone
            /\ pc = "done" =>
                /\ RejectedWithDetails
                /\ responses[1].error = "Invalid request body"
    /\ req.forceZDR =>
            /\ NoWorkDone
            /\ pc = "done" =>
                /\ Len(responses) = 1
                /\ responses[1].status = 400
                /\ ~responses[1].details

\* C26 witness: the body of a request that reached the parse failed the
\* schema, and the request has been answered
C26_Witness ==
    /\ ~req.forceZDR
    /\ ~req.valid
    /\ pc = "done"
    /\ Len(responses) = 1

\* C27 (as claimed): the answer to a fault that is neither a schema error nor
\* a scrape-job timeout is opaque: the 500 response does not carry the
\* message of the fault.
C27_FailureIsOpaque ==
    Synchronous =>
        \A n \in 1..Len(responses) :
            responses[n].status = 500 =>
                /\ responses[n].error # GenericError.message
                /\ ~responses[n].details

\* C28 (as claimed): in the data of a successful answer a category whose
\* list is empty is left out, not returned as an empty list.
C28_EmptyCategoryOmitted ==
    Synchronous =>
        \A n \in 1..Len(responses) :
            responses[n].hasData =>
                \A c \in Categories :
                    responses[n].data[c].present =>
                        responses[n].data[c].items # <<>>

\* the urls of the items of a list that get a job: a url, and not a blocked
\* one
EligibleUrls(items) ==
    LET kept == SelectSeq(items,
                    LAMBDA it : it.url # "" /\ it.url \notin BlockedUrls)
    IN  [i \in 1..Len(kept) |-> kept[i].url]

\* the handle list ids holds, in item order, the ids of the jobs of the
\* eligible items of the category list items
HandlesMatch(ids, items, c) ==
    LET urls == EligibleUrls(items)
    IN  /\ ids.present <=> urls # <<>>
        /\ Len(ids.items) = Len(urls)
        /\ \A k \in 1..Len(urls) :
            \E i \in 1..Len(jobs) :
                /\ jobs[i].jobId = ids.items[k]
                /\ jobs[i].st = "submitted"
                /\ itemsToScrape[i].type = (IF c = "images" THEN "image" ELSE c)
                /\ itemsToScrape[i].scrapeInput.url = urls[k]
        /\ \A k, l \in 1..Len(ids.items) :
            k # l => ids.items[k] # ids.items[l]

\* C29: in asynchronous dispatch mode no job is ever awaited or removed, no
\* span is extracted, no evaluation, re-ranking, credit calculation or
\* billing call is made, and only the first iteration runs; the answer after
\* the submissions carries the search results and, for each category, the
\* job ids of that category's eligible items in item order, one job per
\* eligible item, with the number of jobs as creditsUsed.
C29_AsyncSubmitsAndReturns ==
    (shouldScrape /\ isAsyncScraping) =>
        /\ \A i \in 1..Len(jobs) :
            /\ jobs[i].st \in {"started", "submitted", "rejected"}
            /\ jobs[i].removals = 0
            /\ jobs[i].body = NoDoc
        /\ results = <<>>
        /\ spansByUrl = <<>>
        /\ log.credited = <<>>
        /\ log.replies = <<>>
        /\ log.evaluations = <<>>
        /\ log.reranks = 0
        /\ billCalls = <<>>
        /\ iteration = 0
        /\ Len(log.expand) <= 1
        /\ Succeeded =>
            /\ log.dispatches = 1
            /\ responses[1].hasData
            /\ responses[1].data = searchResponse
            /\ responses[1].creditsUsed = Len(jobs)
            /\ Len(jobs) =
                SumSeq([n \in 1..3 |->
                    Len(EligibleUrls(
                        searchResponse[<<"web", "news", "images">>[n]].items))])
            /\ \A c \in Categories :
                HandlesMatch(responses[1].scrapeIds[c],
                             searchResponse[c].items, c)

\* C29 witness: an asynchronous request answered with job ids in all three
\* categories, beside a web item and a news item that are blocked
C29_Witness ==
    /\ shouldScrape
    /\ isAsyncScraping
    /\ Succeeded
    /\ Len(searchResponse.web.items) = 2
    /\ Len(searchResponse.news.items) = 2
    /\ Len(responses[1].scrapeIds.web.items) = 1
    /\ Len(responses[1].scrapeIds.news.items) = 1
    /\ Len(responses[1].scrapeIds.images.items) = 1

\* the paragraphs of a page that are candidates: normalised, not empty, not
\* list items
CandidateParagraphs(markdown) ==
    SelectSeq([i \in 1..Len(markdown) |->
                    SelectSeq(markdown[i], LAMBDA w : w # "")],
              LAMBDA p : p # <<>> /\ p[1] \notin {"-", "*", "1."})

\* the text p holds every query token of at least 3 characters
ContainsEveryToken(p, query) ==
    \A t \in QueryTokens(query) :
        \E i \in 1..Len(p) : Includes(Lower(p[i]), t)

\* C30 (as claimed): the span extractor returns no span for an absent, empty
\* or white-space-only page; in a page of paragraphs separated by blank lines
\* each span returned is one of the paragraphs, and when a candidate
\* paragraph holds every query token the first span returned holds every
\* query token.
C30_ParagraphWithAllTokensFirst ==
    (call.fn = "extractTopSpansFromMarkdown" /\ call.returned) =>
        LET paragraphs == CandidateParagraphs(call.args.markdown)
        IN  /\ (\A i \in 1..Len(call.args.markdown) :
                    \A j \in 1..Len(call.args.markdown[i]) :
                        call.args.markdown[i][j] = "") => call.ret = <<>>
            /\ \A k \in 1..Len(call.ret) :
                \E i \in 1..Len(paragraphs) : call.ret[k] = paragraphs[i]
            /\ (\E i \in 1..Len(paragraphs) :
                    ContainsEveryToken(paragraphs[i], call.args.query)) =>
                    /\ call.ret # <<>>
                    /\ ContainsEveryToken(call.ret[1], call.args.query)

\* the steps from one await of the controller to the next, in synchronous
\* mode: <<from, to>> positions of a request
SynchronousSteps ==
    {<<"start", "expand">>, <<"start", "done">>,
     <<"expand", "search">>,
     <<"search", "dispatch">>, <<"search", "done">>,
     <<"dispatch", "credits">>,
     <<"credits", "evaluate">>,
     <<"evaluate", "expand">>, <<"evaluate", "finish">>,
     <<"evaluate", "done">>,
     <<"finish", "done">>}

\* how many times each step of the loop body has run when n iterations
\* have started and the request is at position at
StepCountsAt(at, n) ==
    LET searched == IF at = "search" THEN n - 1 ELSE n
        extracted == IF at \in {"search", "dispatch", "credits"} THEN n - 1
                     ELSE n
        evaluated == IF at \in {"search", "dispatch", "credits", "evaluate"}
                     THEN n - 1 ELSE n
    IN  [fusions |-> searched, dispatches |-> searched,
         extractions |-> extracted, evaluations |-> evaluated]

\* C31: in synchronous mode the steps of an iteration happen in the order
\* expand, search, fuse-label-limit-filter, dispatch, merge and extract,
\* evaluate, each once per iteration, and the iteration index and the
\* answered flag change only in the step that ends the evaluation.
C31_IterationStepOrder ==
    [][Synchronous =>
        /\ pc' # pc => <<pc, pc'>> \in SynchronousSteps
        /\ (iteration' # iteration \/ answered' # answered) =>
                pc = "evaluate"
        /\ gapHint' # gapHint => pc = "evaluate"
        /\ (pc' \notin {"start", "done"} /\ log'.expand # <<>>) =>
                LET counts == StepCountsAt(pc', Len(log'.expand))
                IN  /\ log'.fusions = counts.fusions
                    /\ log'.dispatches = counts.dispatches
                    /\ log'.extractions = counts.extractions
                    /\ Len(log'.replies) = counts.evaluations
                    /\ Len(log'.searches) = Len(log'.expand)
        /\ (pc = "search" /\ pc' = "dispatch") =>
                /\ searchResponse' =
                    ApplyLimit(Label(Fuse([i \in 1..Len(variantSearches) |->
                                                variantSearches[i].value],
                                          expandedQueries)), req.limit)
                /\ itemsToScrape' = ItemsToScrape(searchResponse')]_vars

\* C31 witness: the second iteration of a synchronous request is at its
\* evaluation
C31_Witness ==
    /\ Synchronous
    /\ pc = "evaluate"
    /\ Len(log.expand) = 2
    /\ log.extractions = 2
    /\ Len(log.replies) = 1

\* the occurrences of a url in the input lists of the call, each with its
\* list index v, its place idx in the list and its rank (the position, or
\* the place when the item has no position)
OccurrencesOf(url) ==
    UNION {{[v |-> v, idx |-> idx, item |-> call.args.lists[v][idx],
             rank |-> IF call.args.lists[v][idx].position = 0 THEN idx
                      ELSE call.args.lists[v][idx].position] :
                idx \in {i \in 1..Len(call.args.lists[v]) :
                            call.args.lists[v][i].url = url}} :
           v \in 1..Len(call.args.lists)}

\* C32: the item rrfMerge returns for a URL is an occurrence of that URL
\* with the smallest rank over all lists and, among the occurrences of that
\* rank, from the list with the smallest index; the output is in descending
\* order of the score computed with the text of that item.
C32_RepresentativeOccurrence ==
    (call.fn = "rrfMerge" /\ call.returned) =>
        /\ \A i \in 1..Len(call.ret) :
            \E o \in OccurrencesOf(call.ret[i].url) :
                /\ call.ret[i] = [o.item EXCEPT !.position = i]
                /\ \A other \in OccurrencesOf(call.ret[i].url) :
                    \/ o.rank < other.rank
                    \/ o.rank = other.rank /\ o.v <= other.v
        /\ \A i, j \in 1..Len(call.ret) :
            i < j => PlaceScore(i) >= PlaceScore(j)

\* C32 witness: a.com occurs in both lists with the same smallest rank and in
\* the second list with a larger rank first; the occurrence of the first
\* list is returned
C32_Witness ==
    /\ call.fn = "rrfMerge" /\ call.returned
    /\ call.args \in RepresentativeInputs
    /\ call.args.lists[1][2].url = "a.com"
    /\ call.args.lists[1][2].position = 1
    /\ call.args.lists[2][1].url = "a.com"
    /\ call.args.lists[2][1].position = 2
    /\ call.args.lists[2][2].url = "a.com"
    /\ call.args.lists[2][2].position = 1
    /\ \E i \in 1..Len(call.ret) :
        /\ call.ret[i].url = "a.com"
        /\ call.ret[i].title = call.args.lists[1][2].title

\* C33 (as claimed): the evidence handed to the evaluator in an iteration
\* holds only URLs of web items of the limited list that are not blocked,
\* for which a job was dispatched in this iteration, and whose own fetch
\* returned a document with text; the URL of an item whose fetch failed or
\* timed out is not in it.
C33_EvidenceOnlyFromFetched ==
    (Synchronous /\ pc = "evaluate") =>
        \A e \in 1..Len(spansByUrl) :
            /\ spansByUrl[e].url \notin BlockedUrls
            /\ \E n \in 1..Len(searchResponse.web.items) :
                searchResponse.web.items[n].url = spansByUrl[e].url
            /\ \E i \in 1..Len(jobs) :
                /\ itemsToScrape[i].type = "web"
                /\ itemsToScrape[i].scrapeInput.url = spansByUrl[e].url
                /\ jobs[i].st = "done"
                /\ jobs[i].body.markdown # <<>>

\* the job's fetch timed out and the job's promise was fulfilled with the
\* in-band error document
TimedOutInBand(job) ==
    /\ job.error.name = "ScrapeJobTimeoutError"
    /\ job.st = "failed"
    /\ job.body.kind = "placeholder"
    /\ job.body.statusCode = 500
    /\ job.body.error = job.error.message

\* C34: in synchronous mode the timeout of a fetch job leaves the request
\* where it is and gives the job an in-band error document; a 408 response
\* is the answer to a scrape-job timeout error that reached the catch block
\* of the controller, which no fetch job causes; a job that was submitted or
\* has failed is never started again and a search that has settled is never
\* issued again.
C34_JobTimeoutIsInBand ==
    [][Synchronous =>
        /\ \A i \in 1..Len(jobs') :
            jobs'[i].error.name = "ScrapeJobTimeoutError" =>
                TimedOutInBand(jobs'[i])
        /\ jobs' # jobs /\ pc = "dispatch" =>
                /\ responses' = responses
                /\ pc' = "dispatch"
                /\ Len(jobs') = Len(jobs)
                /\ \A i \in 1..Len(jobs) :
                    /\ jobs[i].st # "started" => jobs'[i].st # "started"
                    /\ jobs[i].st \in {"failed", "done"} => jobs'[i] = jobs[i]
        /\ \A n \in 1..Len(responses') :
            responses'[n].status = 408 =>
                /\ responses'[n].error = TimeoutError.message
                /\ \E i \in 1..Len(variantSearches') :
                    variantSearches'[i].st = "rejected"
                /\ pc \notin {"dispatch", "credits"}
        /\ pc = "search" /\ pc' = "search" =>
                /\ Len(variantSearches') = Len(variantSearches)
                /\ \A i \in 1..Len(variantSearches) :
                    variantSearches[i].st # "pending" =>
                        variantSearches'[i] = variantSearches[i]]_vars

\* C34 witness: a synchronous request answered 200 after the fetch of one of
\* its web items timed out; the item carries the in-band error
C34_Witness ==
    /\ Synchronous
    /\ Succeeded
    /\ \E i \in 1..Len(jobs) :
        /\ TimedOutInBand(jobs[i])
        /\ itemsToScrape[i].type = "web"
        /\ \E n \in 1..Len(responses[1].data.web.items) :
            /\ responses[1].data.web.items[n].url =
                    itemsToScrape[i].scrapeInput.url
            /\ responses[1].data.web.items[n].doc.statusCode = 500
            /\ responses[1].data.web.items[n].doc.error = TimeoutError.message

\* C35: when every pending collaborator call eventually returns or fails,
\* every request eventually has sent its response and stopped.
C35_EveryRequestIsAnswered ==
    <>(pc = "done" /\ Len(responses) = 1)

\* C35 witness: a synchronous request answered after MAX_ITERATIONS full
\* iterations, in the last of which one fetch failed and one timed out
C35_Witness ==
    /\ Synchronous
    /\ Succeeded
    /\ Len(log.replies) = MAX_ITERATIONS
    /\ \E i, j \in 1..Len(jobs) :
        /\ jobs[i].error = GenericError
        /\ jobs[j].error = TimeoutError

\* C36: exactly one response is sent per request on every path.  No response
\* is out while the controller runs and exactly one is out once it has
\* stopped; a response, once sent, is never changed nor followed by another;
\* it is sent by the step that stops the controller, with the status of the
\* path: 400 at the entry (forced zero data retention, or a body that fails
\* the schema), 200 out of the dispatch of an asynchronous request or at the
\* normal end, 408 or 500 where a collaborator call threw.
C36_ExactlyOneResponse ==
    [][/\ (pc = "done") <=> (Len(responses) = 1)
       /\ (pc' = "done") <=> (Len(responses') = 1)
       /\ Len(responses) <= 1 /\ Len(responses') <= 1
       /\ pc = "done" => (pc' = "done" /\ responses' = responses)
       /\ (pc # "done" /\ pc' = "done") =>
            LET status == responses'[1].status IN
            /\ status \in {200, 400, 408, 500}
            /\ status = 400 <=> pc = "start"
            /\ pc = "start" =>
                    (responses'[1].details <=> ~req.forceZDR)
            /\ status = 200 =>
                    (pc = "finish" \/ (pc = "dispatch" /\ isAsyncScraping))
            /\ pc = "finish" => status = 200
            /\ status \in {408, 500} =>
                    pc \in {"expand", "search", "dispatch", "evaluate"}]_vars

\* C36 witness: an asynchronous request answered from inside the loop, with
\* the ids of its jobs
C36_Witness ==
    /\ pc = "done"
    /\ shouldScrape /\ isAsyncScraping
    /\ Len(responses) = 1
    /\ responses[1].status = 200
    /\ responses[1].scrapeIds # NoScrapeIds
    /\ iteration = 0

\* C37: the team is billed at most once per request, by the step that sends
\* a successful response without job ids (the non-asynchronous end), never
\* for a search-preview request and never for a request answered with an
\* error, whatever earlier iterations fetched; the billing call settles
\* after the response, and its failure changes neither the response nor
\* anything else of the request.
C37_BilledOnceOnSuccessOnly ==
    [][/\ Len(billCalls') <= 1
       /\ Len(billing') = Len(billCalls')
       /\ billCalls' # billCalls =>
            /\ billCalls = <<>>
            /\ pc = "finish" /\ pc' = "done"
            /\ ~req.isSearchPreview
            /\ ~(shouldScrape /\ isAsyncScraping)
            /\ responses = <<>>
            /\ responses'[1].status = 200
            /\ responses'[1].success
            /\ responses'[1].scrapeIds = NoScrapeIds
       /\ (pc' = "done" /\ billCalls' = <<>>) =>
            \/ req.isSearchPreview
            \/ shouldScrape /\ isAsyncScraping
            \/ responses'[1].status # 200
       /\ (pc' = "done" /\ responses'[1].status # 200) => billCalls' = <<>>
       /\ billing' # billing =>
            \/ billCalls' # billCalls
            \/ /\ pc = "done"
               /\ UNCHANGED <<responses, billCalls, credits_billed, pc>>]_vars

\* C37 witness: a synchronous request that ran MAX_ITERATIONS iterations,
\* each with finished fetches, was answered 200 and billed once, and the
\* billing call failed
C37_Witness ==
    /\ Synchronous /\ Succeeded
    /\ Len(log.evaluations) = MAX_ITERATIONS
    /\ credits_billed > 0
    /\ billCalls = <<credits_billed>>
    /\ billing = <<"rejected">>
    /\ responses[1].creditsUsed = credits_billed

\* the credits of the documents that the dispatch of the current iteration
\* resolved with: 2 for a document with content, 1 for any other
IterationCredits ==
    SumSeq([i \in 1..Len(results) |->
                IF results[i].document.body.markdown # <<>> THEN 2 ELSE 1])

\* C38: the credit total is that of the last executed iteration only.  Each
\* iteration's credit step sets the counter to the credits of the documents
\* of that iteration alone (or, when the calculation fails, to that
\* iteration's result count), whatever the counter held from the iteration
\* before; without fetching it is that iteration's result count; between
\* these steps nothing changes the counter, and the response reports and
\* the team is billed the counter as the last iteration left it.
C38_CreditsOfLastIterationOnly ==
    [][/\ (Synchronous /\ pc = "credits") =>
            /\ pc' = "evaluate"
            /\ credits_billed' \in {IterationCredits, totalResultsCount}
       /\ (~shouldScrape /\ pc = "search" /\ pc' # "search"
                /\ pc' # "done") =>
            credits_billed' = TotalResultsCount(searchResponse')
       /\ (pc \notin {"credits", "search", "dispatch"}) =>
            credits_billed' = credits_billed
       /\ (pc = "finish" /\ pc' = "done") =>
            /\ responses'[1].creditsUsed = credits_billed
            /\ \A n \in 1..Len(billCalls') :
                    billCalls'[n] = credits_billed]_vars

\* C38 witness: the second iteration's credit step is about to run while
\* the counter holds the credits of the first iteration's fetches, and the
\* sum of both would differ from the credits of the second alone
C38_Witness ==
    /\ Synchronous
    /\ pc = "credits"
    /\ iteration = 1
    /\ log.extractions = 1
    /\ credits_billed > 0
    /\ IterationCredits > 0

\* C39: in synchronous mode a job leaves the fetch queue only by the removal
\* that follows its successful await, and at most once.  A removal happens
\* only to a job whose await has succeeded and is its first; a job enters
\* the queue by its submission only; a job whose await fails or times out
\* stays in the queue without a removal, then and as long as the request
\* lasts, so when the dispatch completes every job that timed out is still
\* in the queue and was never removed.
C39_RemovedOnlyAfterAwait ==
    [][Synchronous =>
        /\ \A i \in 1..Len(jobs) :
            /\ jobs[i].removals <= 1
            /\ jobs[i].removals = 1 => ~jobs[i].inQueue
        /\ Len(jobs') = Len(jobs) =>
            \A i \in 1..Len(jobs) :
                /\ jobs'[i].removals # jobs[i].removals =>
                    /\ jobs[i].st = "awaited"
                    /\ jobs[i].removals = 0 /\ jobs'[i].removals = 1
                    /\ jobs[i].inQueue /\ ~jobs'[i].inQueue
                /\ (jobs[i].inQueue /\ ~jobs'[i].inQueue) =>
                    jobs'[i].removals = jobs[i].removals + 1
                /\ (~jobs[i].inQueue /\ jobs'[i].inQueue) =>
                    (jobs[i].st = "started" /\ jobs'[i].st = "waiting")
                /\ (jobs[i].st = "waiting" /\ jobs'[i].st = "failed") =>
                    (jobs'[i].inQueue /\ jobs'[i].removals = 0)
                /\ jobs[i].st = "failed" => jobs'[i] = jobs[i]
        /\ (pc = "dispatch" /\ pc' = "credits") =>
            \A i \in 1..Len(jobs) :
                jobs[i].error = TimeoutError =>
                    (jobs[i].inQueue /\ jobs[i].removals = 0)]_vars

\* C39 witness: the dispatch has completed with one job that timed out,
\* still in the queue and never removed, and one finished job that was
\* removed once
C39_Witness ==
    /\ Synchronous
    /\ pc = "credits"
    /\ \E i, j \in 1..Len(jobs) :
        /\ jobs[i].error = TimeoutError
        /\ jobs[i].inQueue /\ jobs[i].removals = 0
        /\ jobs[j].st = "done"
        /\ ~jobs[j].inQueue /\ jobs[j].removals = 1

\* C40 (as claimed): in synchronous mode every item of the enriched response
\* for which a job was dispatched carries the document, or the error
\* document, of the job dispatched for that very item: the job of its own
\* category and URL, also when another category holds the same URL.
C40_MergedWithOwnJob ==
    (Synchronous /\ pc = "evaluate") =>
        \A i \in 1..Len(itemsToScrape) :
            LET category == IF itemsToScrape[i].type = "image"
                            THEN "images"
                            ELSE itemsToScrape[i].type
            IN  \A n \in 1..Len(searchResponse[category].items) :
                    LET item == searchResponse[category].items[n] IN
                    item.url = itemsToScrape[i].scrapeInput.url =>
                        item.doc = jobs[i].body

====
